---- MODULE Spec2Model ----
(***************************************************************************)
(* The DAO coin limit order conversion routines of deso-backend            *)
(* (routes/dao_coin_exchange.go): conversion between coin-level prices and *)
(* quantities and the uint256 values stored in limit orders.               *)
(*                                                                         *)
(* Numbers.  The program computes on 256 bit integers and math/big         *)
(* integers of up to 78 decimal digits.  A natural number is modelled by   *)
(* the sequence of its decimal digits, most significant digit first and    *)
(* without leading zeros; zero is the empty sequence.  All arithmetic is   *)
(* exact school arithmetic on these sequences.                             *)
(*                                                                         *)
(* The module holds five state machines over one set of variables: the     *)
(* caller of the conversion functions (Spec), concurrent callers           *)
(* (SpecThreads), the order listings (SpecOrders), the referral links of   *)
(* the admin handlers (SpecReferral) and the checksum tool (SpecChecksum). *)
(* Each leaves the variables of the others as they start.                  *)
(***************************************************************************)
EXTENDS Integers, Sequences, FiniteSets, TLC

VARIABLES
    fn,             \* the function called last ("" before the first call)
    buying,         \* its buying coin identifier
    selling,        \* its selling coin identifier
    operationType,  \* its operation type ("" when it takes none)
    floatArg,       \* its float64 argument: the price or quantity
    scaledArg,      \* its uint256 argument: the scaled rate or base units
    textArg,        \* its string argument
    ret,            \* what it returned
    chained,        \* whether scaledArg is what the call before returned for floatArg
    parserRejectsZero, \* whether the parser of the ledger library linked into
                       \* the program returns an error for a result of zero
    heap,           \* the value of every big integer object of the program, by
                    \* its place: the shared objects and the objects of each thread
    pc,             \* the statement each thread of concurrent callers is at
    frame,          \* the coins, pointers and result of the call of each thread
    given,          \* the value the callers put in the uint256 they pass
    book,           \* the limit orders the ledger holds, in the order it lists them
    handler,        \* the order listing the server answered last ("" for none)
    request,        \* the request it got
    reply,          \* the status code and the orders it answered with
    work,           \* the ledger lookups and order conversions it made for the answer
    GlobalState,    \* the referral entries of the server's key-value store, by
                    \* key prefix: the info of each hash, the status of each
                    \* (PKID, hash)
    adminReply,     \* the referral handler that ran last and what it answered
    puts,           \* the keys that handler wrote to the store, in order
    dbSnap,         \* the checksum tool: the keys the snapshot database holds
                    \* under each state prefix
    mainAt,         \* the statement its main function is at
    nextPrefix,     \* the index of the prefix its loop is at
    sem,            \* the weight taken from its semaphore
    routines,       \* the goroutine of each prefix: where it is and its locals
    Checksum,       \* the entries added to the checksum of the snapshot, in the
                    \* order they were added
    checksumBytes   \* the checksum main read in the end

\* the last call of the caller that calls one function at a time
callVars == <<fn, buying, selling, operationType, floatArg, scaledArg, textArg, ret,
              chained, parserRejectsZero>>

\* the concurrent callers
threadVars == <<heap, pc, frame, given>>

\* the order listings of the server
orderVars == <<book, handler, request, reply, work>>

\* all but the variables of one part
\* the referral links of the admin handlers
referralVars == <<GlobalState, adminReply, puts>>

\* the checksum tool
checksumVars == <<dbSnap, mainAt, nextPrefix, sem, routines, Checksum, checksumBytes>>

besidesCalls == <<threadVars, orderVars, referralVars, checksumVars>>
besidesThreads == <<callVars, orderVars, referralVars, checksumVars>>
besidesOrders == <<callVars, threadVars, referralVars, checksumVars>>
besidesReferral == <<callVars, threadVars, orderVars, checksumVars>>
besidesChecksum == <<callVars, threadVars, orderVars, referralVars>>

vars == <<callVars, threadVars, orderVars, referralVars, checksumVars>>

(***************************************************************************)
(* Natural numbers as digit sequences                                      *)
(***************************************************************************)
Zero == << >>

Zeros(k) == [i \in 1..k |-> 0]

\* s without its leading zeros
Strip(s) ==
    IF \A i \in 1..Len(s) : s[i] = 0 THEN << >>
    ELSE SubSeq(s, CHOOSE i \in 1..Len(s) : s[i] # 0 /\ \A j \in 1..(i - 1) : s[j] = 0,
                Len(s))

IsZero(a) == a = Zero

\* the i-th digit of a counted from the least significant one
DigitAt(a, i) == IF i <= Len(a) THEN a[Len(a) + 1 - i] ELSE 0

MaxOf(x, y) == IF x >= y THEN x ELSE y

\* a < b
Less(a, b) ==
    \/ Len(a) < Len(b)
    \/ /\ Len(a) = Len(b)
       /\ \E i \in 1..Len(a) : a[i] < b[i] /\ \A j \in 1..(i - 1) : a[j] = b[j]

Leq(a, b) == a = b \/ Less(a, b)

\* digits lo..hi (counted from the least significant one) of a + b + c, with
\* the carry out of digit hi: <<digits, carry>>
RECURSIVE AddRange(_, _, _, _, _)
AddRange(a, b, lo, hi, c) ==
    IF lo = hi
    THEN LET s == DigitAt(a, lo) + DigitAt(b, lo) + c
         IN  <<(<<s % 10>>), s \div 10>>
    ELSE LET mid == (lo + hi) \div 2
             low == AddRange(a, b, lo, mid, c)
         IN  CASE Len(low) = 2 ->
                 LET high == AddRange(a, b, mid + 1, hi, low[2])
                 IN  <<high[1] \o low[1], high[2]>>

Add(a, b) ==
    IF a = Zero THEN b
    ELSE IF b = Zero THEN a
    ELSE LET WithCarry(r) == IF r[2] = 0 THEN r[1] ELSE <<r[2]>> \o r[1]
         IN  WithCarry(AddRange(a, b, 1, MaxOf(Len(a), Len(b)), 0))

\* digits lo..hi of a - b - c, with the borrow out of digit hi
RECURSIVE SubRange(_, _, _, _, _)
SubRange(a, b, lo, hi, c) ==
    IF lo = hi
    THEN LET s == DigitAt(a, lo) - DigitAt(b, lo) - c
         IN  IF s < 0 THEN <<(<<s + 10>>), 1>> ELSE <<(<<s>>), 0>>
    ELSE LET mid == (lo + hi) \div 2
             low == SubRange(a, b, lo, mid, c)
         IN  CASE Len(low) = 2 ->
                 LET high == SubRange(a, b, mid + 1, hi, low[2])
                 IN  <<high[1] \o low[1], high[2]>>

\* a - b for a >= b
Sub(a, b) ==
    IF b = Zero THEN a ELSE Strip(SubRange(a, b, 1, Len(a), 0)[1])

\* digits lo..hi of a * d + c for one digit d, with the carry out of digit hi
RECURSIVE MulDigitRange(_, _, _, _, _)
MulDigitRange(a, d, lo, hi, c) ==
    IF lo = hi
    THEN LET s == DigitAt(a, lo) * d + c
         IN  <<(<<s % 10>>), s \div 10>>
    ELSE LET mid == (lo + hi) \div 2
             low == MulDigitRange(a, d, lo, mid, c)
         IN  CASE Len(low) = 2 ->
                 LET high == MulDigitRange(a, d, mid + 1, hi, low[2])
                 IN  <<high[1] \o low[1], high[2]>>

\* a * d for one digit d
MulDigit(a, d) ==
    IF d = 0 \/ a = Zero THEN Zero
    ELSE IF d = 1 THEN a
    ELSE LET WithCarry(r) == IF r[2] = 0 THEN r[1] ELSE <<r[2]>> \o r[1]
         IN  WithCarry(MulDigitRange(a, d, 1, Len(a), 0))

\* the sum of the partial products a * b[j] * 10^(Len(b) - j), lo <= j <= hi
RECURSIVE MulTerms(_, _, _, _)
MulTerms(a, b, lo, hi) ==
    IF lo = hi
    THEN (IF b[lo] = 0 THEN Zero ELSE MulDigit(a, b[lo]) \o Zeros(Len(b) - lo))
    ELSE LET mid == (lo + hi) \div 2
         IN  Add(MulTerms(a, b, lo, mid), MulTerms(a, b, mid + 1, hi))

\* b is a power of ten
IsPow10(b) == b # Zero /\ b[1] = 1 /\ \A i \in 2..Len(b) : b[i] = 0

\* a * b; a power of ten is multiplied in by appending its zeros
Mul(a, b) ==
    IF a = Zero \/ b = Zero THEN Zero
    ELSE IF IsPow10(b) THEN a \o Zeros(Len(b) - 1)
    ELSE IF IsPow10(a) THEN b \o Zeros(Len(a) - 1)
    ELSE MulTerms(a, b, 1, Len(b))

\* how often b fits into r (r < 10 * b), with what is left: <<digit, rest>>
RECURSIVE Fit(_, _, _)
Fit(r, b, q) ==
    IF Less(r, b) THEN <<q, r>>
    ELSE LET r1 == Sub(r, b) IN CASE Len(r1) >= 0 -> Fit(r1, b, q + 1)

\* one step of the long division by b: bring down digit d
DivStep(st, d, b) ==
    LET Bring(f) == <<Append(st[1], f[1]), f[2]>>
    IN  Bring(Fit(Strip(Append(st[2], d)), b, 0))

\* the steps for the digits lo..hi of a, from the state st = <<quotient, rest>>
RECURSIVE DivSteps(_, _, _, _, _)
DivSteps(a, b, lo, hi, st) ==
    IF lo = hi THEN DivStep(st, a[lo], b)
    ELSE LET mid  == (lo + hi) \div 2
             left == DivSteps(a, b, lo, mid, st)
         IN  CASE Len(left) = 2 -> DivSteps(a, b, mid + 1, hi, left)

\* <<quotient, remainder>> of a by b # 0 (long division)
\* a power of ten divides by cutting off the low digits
DivMod(a, b) ==
    IF Less(a, b) THEN <<Zero, a>>
    ELSE IF IsPow10(b)
    THEN <<SubSeq(a, 1, Len(a) - Len(b) + 1),
           Strip(SubSeq(a, Len(a) - Len(b) + 2, Len(a)))>>
    ELSE LET Result(st) == <<Strip(st[1]), st[2]>>
         IN  Result(DivSteps(a, b, 1, Len(a), <<Zero, Zero>>))

Pow10(k) == <<1>> \o Zeros(k)

Div(a, b) == DivMod(a, b)[1]
Mod(a, b) == DivMod(a, b)[2]

\* a / b rounded up, b # 0
CeilDiv(a, b) ==
    LET Up(qr) == IF qr[2] = Zero THEN qr[1] ELSE Add(qr[1], <<1>>)
    IN  Up(DivMod(a, b))

(***************************************************************************)
(* Constants of the ledger                                                 *)
(***************************************************************************)
\* lib.OneE38, the scale of an exchange rate
OneE38 == Pow10(38)

\* lib.BaseUnitsPerCoin, the base units of one DAO coin
BaseUnitsPerCoin == Pow10(18)

\* lib.NanosPerUnit, the nanos of one $DESO
NanosPerUnit == Pow10(9)

\* 2^256: a uint256.Int holds the values below it
TwoPow256 ==
    <<1,1,5,7,9,2,0,8,9,2,3,7,3,1,6,1,9,5,4,2,3,5,7,0,9,8,5,0,0,8,6,8,7,9,0,
      7,8,5,3,2,6,9,9,8,4,6,6,5,6,4,0,5,6,4,0,3,9,4,5,7,5,8,4,0,0,7,9,1,3,1,2,
      9,6,3,9,9,3,6>>

MaxUint256 == Sub(TwoPow256, <<1>>)

\* uint256.Int.Div: z = x / y, and 0 when y = 0
Uint256Div(x, y) == IF y = Zero THEN Zero ELSE Div(x, y)

\* uint256.Int.Mod: z = x % y, and 0 when y = 0
Uint256Mod(x, y) == IF y = Zero THEN Zero ELSE Mod(x, y)

\* uint256.Int.MulOverflow: the product reduced modulo 2^256, and whether
\* the exact product did not fit
MulOverflow(x, y) ==
    LET Reduce(p) ==
            IF Less(p, TwoPow256) THEN [val |-> p, overflow |-> FALSE]
            ELSE [val |-> Mod(p, TwoPow256), overflow |-> TRUE]
    IN  Reduce(Mul(x, y))

\* the coin identifier of $DESO is the empty string; any other identifier
\* names a DAO coin
DESOCoin == ""
DAOCoin == "TestDAOCoinPubKey"

DAOCoinLimitOrderOperationTypeStringASK == "ASK"
DAOCoinLimitOrderOperationTypeStringBID == "BID"

(***************************************************************************)
(* Text.  A string is the sequence of its characters.                      *)
(***************************************************************************)
DigitChars == <<"0", "1", "2", "3", "4", "5", "6", "7", "8", "9">>

IsDigitChar(c) == \E d \in 1..Len(DigitChars) : DigitChars[d] = c

CharOf(d) == DigitChars[d + 1]

ValOf(c) == (CHOOSE d \in 1..Len(DigitChars) : DigitChars[d] = c) - 1

\* fmt "%d" of a natural number
FormatInt(n) == IF n = Zero THEN <<"0">> ELSE [i \in 1..Len(n) |-> CharOf(n[i])]

\* the digits of a text of digit characters
DigitsOf(t) == [i \in 1..Len(t) |-> ValOf(t[i])]

\* strings.Repeat("0", k)
RepeatZero(k) == [i \in 1..k |-> "0"]

(***************************************************************************)
(* Results: a value with a nil error, or an error                          *)
(***************************************************************************)
Ok(v) == [err |-> "", val |-> v]
Err(e) == [err |-> e, val |-> Zero]

(***************************************************************************)
(* The decimal parser of the ledger library (lib).  Its code is not part   *)
(* of this repository's sources; it is modelled from its specification:    *)
(* the text is an optional integer part and an optional "." with           *)
(* fractional digits; the value is integer_part * F + fractional_part * F  *)
(* / 10^(number of fractional digits), cut off below 1/F; a result that    *)
(* does not fit 256 bits is an error.  Its specification makes a result of *)
(* zero an error as well, while CalculateScaledExchangeRate tests the      *)
(* value the parser returned without error for zero: whether the linked    *)
(* parser rejects zero is left open (parserRejectsZero), and a property    *)
(* holds only if it holds either way.                                      *)
(***************************************************************************)
\* the grammar without the demand for a digit
WellFormedWithoutDigit(text) ==
    /\ \A i \in 1..Len(text) : IsDigitChar(text[i]) \/ text[i] = "."
    /\ Cardinality({i \in 1..Len(text) : text[i] = "."}) <= 1

WellFormed(text) ==
    /\ Len(text) > 0
    /\ \A i \in 1..Len(text) : IsDigitChar(text[i]) \/ text[i] = "."
    /\ Cardinality({i \in 1..Len(text) : text[i] = "."}) <= 1
    /\ \E i \in 1..Len(text) : IsDigitChar(text[i])

\* the position of the decimal point, or one past the end
DotAt(text) ==
    IF \E i \in 1..Len(text) : text[i] = "."
    THEN CHOOSE i \in 1..Len(text) : text[i] = "."
    ELSE Len(text) + 1

\* the parser with the digits below 1/F rounding the result up
ScaleFloatFormatStringToUint256RoundingUp(floatStr, scaleFactor) ==
    IF ~WellFormed(floatStr) THEN Err("ParseError")
    ELSE LET Checked(scaled) ==
                 IF scaled = Zero
                 THEN (IF parserRejectsZero THEN Err("RangeError") ELSE Ok(Zero))
                 ELSE IF ~Less(scaled, TwoPow256) THEN Err("OverflowError")
                 ELSE Ok(scaled)
             Scaled(intPart, fracText) ==
                 Checked(Add(Mul(intPart, scaleFactor),
                             CeilDiv(Mul(Strip(DigitsOf(fracText)), scaleFactor),
                                     Pow10(Len(fracText)))))
             Split(dot) ==
                 Scaled(Strip(DigitsOf(SubSeq(floatStr, 1, dot - 1))),
                        SubSeq(floatStr, dot + 1, Len(floatStr)))
         IN  Split(DotAt(floatStr))

ScaleFloatFormatStringToUint256(floatStr, scaleFactor) ==
    IF ~WellFormed(floatStr) THEN Err("ParseError")
    ELSE LET Checked(scaled) ==
                 IF scaled = Zero
                 THEN (IF parserRejectsZero THEN Err("RangeError") ELSE Ok(Zero))
                 ELSE IF ~Less(scaled, TwoPow256) THEN Err("OverflowError")
                 ELSE Ok(scaled)
             Scaled(intPart, fracText) ==
                 Checked(Add(Mul(intPart, scaleFactor),
                             Div(Mul(Strip(DigitsOf(fracText)), scaleFactor),
                                 Pow10(Len(fracText)))))
             Split(dot) ==
                 Scaled(Strip(DigitsOf(SubSeq(floatStr, 1, dot - 1))),
                        SubSeq(floatStr, dot + 1, Len(floatStr)))
         IN  Split(DotAt(floatStr))

\* lib.CalculateScaledExchangeRateFromString: the parser at the rate scale
CalculateScaledExchangeRateFromString(priceStr) ==
    ScaleFloatFormatStringToUint256(priceStr, OneE38)

(***************************************************************************)
(* float64.  A float64 argument is modelled by the decimal numeral it was  *)
(* written as, whole.frac (no leading zeros in whole, no trailing zeros in *)
(* frac) with its sign neg, and by int, the exact integer part of the      *)
(* magnitude of the binary64 value: big.NewFloat(0).SetFloat64(f).Int(nil) *)
(* yields int with the sign of f (it truncates towards zero).  Below 2^53  *)
(* the integer part of the binary value is the whole part of the numeral;  *)
(* for larger values it differs from the numeral (1e23 is held as          *)
(* 99999999999999991611392).  A float64 result is modelled by the decimal  *)
(* number strconv.ParseFloat is given; two numerals of at most 15          *)
(* significant digits denote the same float64 exactly when they are equal. *)
(***************************************************************************)
\* s without its trailing zeros
StripTrailing(s) ==
    IF \A i \in 1..Len(s) : s[i] = 0 THEN << >>
    ELSE SubSeq(s, 1, CHOOSE i \in 1..Len(s) :
                          s[i] # 0 /\ \A j \in (i + 1)..Len(s) : s[j] = 0)

\* strconv.ParseFloat of a text "whole.frac" of digits: the decimal it denotes
ParseFloat(str) ==
    LET Split(dot) ==
            [whole |-> Strip(DigitsOf(SubSeq(str, 1, dot - 1))),
             frac  |-> StripTrailing(DigitsOf(SubSeq(str, dot + 1, Len(str))))]
    IN  Split(DotAt(str))

\* the quotient of getNumDigits after n rounds of quotient.Div(quotient, ten)
QuotientAfter(val, n) == Div(val, Pow10(n))

\* getNumDigits: the number of rounds of its loop, which ends at the first
\* quotient that is zero
getNumDigits(val) ==
    CHOOSE n \in 0..(Len(val) + 1) :
        /\ QuotientAfter(val, n) = Zero
        /\ n = 0 \/ QuotientAfter(val, n - 1) # Zero

\* the quotient of getNumDigits after n rounds for the negative value -a, as
\* a magnitude: big.Int.Div is the Euclidean division, whose remainder is
\* never negative, so that -a by ten is -ceil(a / 10)
NegativeQuotientAfter(a, n) == CeilDiv(a, Pow10(n))

\* the loop of getNumDigits never ends: it reaches a quotient that is not
\* zero and that a further round leaves as it is (-1 by ten is -1)
getNumDigitsLoopsForever(neg, a) ==
    /\ neg
    /\ \E n \in 0..Len(a) :
           /\ NegativeQuotientAfter(a, n) # Zero
           /\ NegativeQuotientAfter(a, n + 1) = NegativeQuotientAfter(a, n)

\* formatFloatAsString returns: getNumDigits of the integer part of f ends
formatFloatAsStringReturns(f) == ~getNumDigitsLoopsForever(f.neg, f.int)

\* what stands for the result of a call that does not return
NoReturn == [err |-> "does not return", val |-> Zero]

supportedPrecisionDigits == 15

\* fmt "%.<prec>f" of f: the numeral rounded to prec fractional digits, to
\* the nearest and to the even digit when exactly half way; no "." when
\* prec = 0; a "-" in front when f is negative
SprintfFixed(prec, f) ==
    LET fracPad == [i \in 1..prec |-> IF i <= Len(f.frac) THEN f.frac[i] ELSE 0]
        rest    == SubSeq(f.frac, prec + 1, Len(f.frac))
        Up(kept) == /\ rest # << >>
                    /\ \/ rest[1] > 5
                       \/ /\ rest[1] = 5
                          /\ \/ \E i \in 2..Len(rest) : rest[i] # 0
                             \/ DigitAt(kept, 1) % 2 = 1
        Text(padded) ==
            IF prec = 0 THEN [i \in 1..Len(padded) |-> CharOf(padded[i])]
            ELSE [i \in 1..(Len(padded) - prec) |-> CharOf(padded[i])]
                   \o <<".">>
                   \o [i \in 1..prec |-> CharOf(padded[Len(padded) - prec + i])]
        Signed(text) == IF f.neg THEN <<"-">> \o text ELSE text
        Pad(rounded) == Signed(Text(Zeros(MaxOf(0, prec + 1 - Len(rounded))) \o rounded))
        Round(kept) == Pad(IF Up(kept) THEN Add(kept, <<1>>) ELSE kept)
    IN  Round(Strip(f.whole \o fracPad))

\* formatFloatAsString that keeps every digit of an integer part of more than
\* 15 digits
formatFloatAsStringUntruncated(f) ==
    LET Format(fAsBigInt, numWholeNumberDigits) ==
            IF numWholeNumberDigits <= supportedPrecisionDigits
            THEN SprintfFixed(supportedPrecisionDigits - numWholeNumberDigits, f)
            ELSE FormatInt(fAsBigInt) \o <<".", "0">>
    IN  Format(f.int, getNumDigits(f.int))

\* formatFloatAsString that prints 15 digits after the decimal point
\* whatever the number of digits of the integer part
formatFloatAsStringFixedPrecision(f) ==
    LET Truncated(fAsBigInt, divisorToDropDigits) ==
            FormatInt(Mul(Div(fAsBigInt, divisorToDropDigits), divisorToDropDigits))
              \o <<".", "0">>
        Format(fAsBigInt, numWholeNumberDigits) ==
            IF numWholeNumberDigits <= supportedPrecisionDigits
            THEN SprintfFixed(supportedPrecisionDigits, f)
            ELSE Truncated(fAsBigInt,
                           Pow10(numWholeNumberDigits - supportedPrecisionDigits))
    IN  Format(f.int, getNumDigits(f.int))

formatFloatAsString(f) ==
    LET Truncated(fAsBigInt, divisorToDropDigits) ==
            FormatInt(Mul(Div(fAsBigInt, divisorToDropDigits), divisorToDropDigits))
              \o <<".", "0">>
        Format(fAsBigInt, numWholeNumberDigits) ==
            IF numWholeNumberDigits <= supportedPrecisionDigits
            THEN SprintfFixed(supportedPrecisionDigits - numWholeNumberDigits, f)
            ELSE Truncated(fAsBigInt,
                           Pow10(numWholeNumberDigits - supportedPrecisionDigits))
    IN  Format(f.int, getNumDigits(f.int))

(***************************************************************************)
(* routes/dao_coin_exchange.go                                             *)
(***************************************************************************)
\* (1e18 / 1e9), the difference in scaling factor for DAO coin base units
\* and $DESO nanos
getDESOToDAOCoinBaseUnitsScalingFactor == Uint256Div(BaseUnitsPerCoin, NanosPerUnit)

\* CalculateScaledExchangeRate without the test of the raw scaled rate for
\* zero
CalculateScaledExchangeRateNoZeroCheck(buyingCoin, sellingCoin, exchangeRateCoinsToSellPerCoinToBuy) ==
    LET BuyingDESO(product) ==
            IF product.overflow THEN Err("overflow") ELSE Ok(product.val)
        SellingDESO(quotient) ==
            IF IsZero(quotient) THEN Err("too small") ELSE Ok(quotient)
        Scaled(rawScaledExchangeRate) ==
            IF rawScaledExchangeRate.err # "" THEN rawScaledExchangeRate
            ELSE IF buyingCoin = DESOCoin
            THEN BuyingDESO(MulOverflow(rawScaledExchangeRate.val,
                                        getDESOToDAOCoinBaseUnitsScalingFactor))
            ELSE IF sellingCoin = DESOCoin
            THEN SellingDESO(Uint256Div(rawScaledExchangeRate.val,
                                        getDESOToDAOCoinBaseUnitsScalingFactor))
            ELSE Ok(rawScaledExchangeRate.val)
    IN  Scaled(CalculateScaledExchangeRateFromString(
                   formatFloatAsString(exchangeRateCoinsToSellPerCoinToBuy)))

\* CalculateScaledExchangeRate with the two corrections exchanged: the
\* division applied when buying $DESO, the multiplication when selling it
CalculateScaledExchangeRateSwapped(buyingCoin, sellingCoin, exchangeRateCoinsToSellPerCoinToBuy) ==
    LET BuyingDESO(product) ==
            IF product.overflow THEN Err("overflow") ELSE Ok(product.val)
        SellingDESO(quotient) ==
            IF IsZero(quotient) THEN Err("too small") ELSE Ok(quotient)
        Scaled(rawScaledExchangeRate) ==
            IF rawScaledExchangeRate.err # "" THEN rawScaledExchangeRate
            ELSE IF IsZero(rawScaledExchangeRate.val) THEN Err("too small")
            ELSE IF sellingCoin = DESOCoin
            THEN BuyingDESO(MulOverflow(rawScaledExchangeRate.val,
                                        getDESOToDAOCoinBaseUnitsScalingFactor))
            ELSE IF buyingCoin = DESOCoin
            THEN SellingDESO(Uint256Div(rawScaledExchangeRate.val,
                                        getDESOToDAOCoinBaseUnitsScalingFactor))
            ELSE Ok(rawScaledExchangeRate.val)
    IN  Scaled(CalculateScaledExchangeRateFromString(
                   formatFloatAsString(exchangeRateCoinsToSellPerCoinToBuy)))

\* CalculateScaledExchangeRate without the test of the overflow flag: the
\* product is returned as MulOverflow left it, reduced modulo 2^256
CalculateScaledExchangeRateUnchecked(buyingCoin, sellingCoin, exchangeRateCoinsToSellPerCoinToBuy) ==
    LET SellingDESO(quotient) ==
            IF IsZero(quotient) THEN Err("too small") ELSE Ok(quotient)
        Scaled(rawScaledExchangeRate) ==
            IF rawScaledExchangeRate.err # "" THEN rawScaledExchangeRate
            ELSE IF IsZero(rawScaledExchangeRate.val) THEN Err("too small")
            ELSE IF buyingCoin = DESOCoin
            THEN Ok(MulOverflow(rawScaledExchangeRate.val,
                                getDESOToDAOCoinBaseUnitsScalingFactor).val)
            ELSE IF sellingCoin = DESOCoin
            THEN SellingDESO(Uint256Div(rawScaledExchangeRate.val,
                                        getDESOToDAOCoinBaseUnitsScalingFactor))
            ELSE Ok(rawScaledExchangeRate.val)
    IN  Scaled(CalculateScaledExchangeRateFromString(
                   formatFloatAsString(exchangeRateCoinsToSellPerCoinToBuy)))

CalculateScaledExchangeRate(buyingCoin, sellingCoin, exchangeRateCoinsToSellPerCoinToBuy) ==
    LET BuyingDESO(product) ==
            IF product.overflow THEN Err("overflow") ELSE Ok(product.val)
        SellingDESO(quotient) ==
            IF IsZero(quotient) THEN Err("too small") ELSE Ok(quotient)
        Scaled(rawScaledExchangeRate) ==
            IF rawScaledExchangeRate.err # "" THEN rawScaledExchangeRate
            ELSE IF IsZero(rawScaledExchangeRate.val) THEN Err("too small")
            ELSE IF buyingCoin = DESOCoin
            THEN BuyingDESO(MulOverflow(rawScaledExchangeRate.val,
                                        getDESOToDAOCoinBaseUnitsScalingFactor))
            ELSE IF sellingCoin = DESOCoin
            THEN SellingDESO(Uint256Div(rawScaledExchangeRate.val,
                                        getDESOToDAOCoinBaseUnitsScalingFactor))
            ELSE Ok(rawScaledExchangeRate.val)
    IN  IF ~formatFloatAsStringReturns(exchangeRateCoinsToSellPerCoinToBuy)
        THEN NoReturn
        ELSE Scaled(CalculateScaledExchangeRateFromString(
                        formatFloatAsString(exchangeRateCoinsToSellPerCoinToBuy)))

(***************************************************************************)
(* The conversions of a price given as a decimal text.  The tests of the   *)
(* repository call them; their code is not among its sources.  They are    *)
(* modelled from their specification: the price is parsed at the rate      *)
(* scale, a price parsing to zero is an error, the price of an ASK order   *)
(* is inverted (10^38 * 10^38 divided by the scaled price, rounded up),    *)
(* and the result is corrected for $DESO as CalculateScaledExchangeRate    *)
(* corrects it.                                                            *)
(***************************************************************************)
\* DirectionalRate with the reciprocal of an ASK price rounded down
DirectionalRateRoundedDown(rawScaledPrice, operationTypeString) ==
    IF operationTypeString = DAOCoinLimitOrderOperationTypeStringASK
    THEN Div(Mul(OneE38, OneE38), rawScaledPrice)
    ELSE rawScaledPrice

\* the scaled rate of a scaled price: the price itself for BID, its
\* reciprocal at the rate scale, rounded up, for ASK
DirectionalRate(rawScaledPrice, operationTypeString) ==
    IF operationTypeString = DAOCoinLimitOrderOperationTypeStringASK
    THEN CeilDiv(Mul(OneE38, OneE38), rawScaledPrice)
    ELSE rawScaledPrice

CalculateScaledExchangeRateFromPriceString(buyingCoin, sellingCoin, price, operationTypeString) ==
    LET BuyingDESO(product) ==
            IF product.overflow THEN Err("overflow") ELSE Ok(product.val)
        SellingDESO(quotient) ==
            IF IsZero(quotient) THEN Err("too small") ELSE Ok(quotient)
        Corrected(rawScaledExchangeRate) ==
            IF buyingCoin = DESOCoin
            THEN BuyingDESO(MulOverflow(rawScaledExchangeRate,
                                        getDESOToDAOCoinBaseUnitsScalingFactor))
            ELSE IF sellingCoin = DESOCoin
            THEN SellingDESO(Uint256Div(rawScaledExchangeRate,
                                        getDESOToDAOCoinBaseUnitsScalingFactor))
            ELSE Ok(rawScaledExchangeRate)
        Scaled(rawScaledPrice) ==
            IF rawScaledPrice.err # "" THEN rawScaledPrice
            ELSE IF IsZero(rawScaledPrice.val) THEN Err("too small")
            ELSE Corrected(DirectionalRate(rawScaledPrice.val, operationTypeString))
    IN  Scaled(CalculateScaledExchangeRateFromString(price))

\* FormatAndParse without the leading zeros of the fraction
FormatAndParseUnpadded(whole, decimal, scale) ==
    LET Parsed(str) == [err |-> "", val |-> ParseFloat(str), str |-> str]
    IN  Parsed(FormatInt(whole) \o <<".">> \o FormatInt(decimal))

\* FormatAndParse with one leading zero more: the digits of the factor less
\* the digits of the fraction
FormatAndParseWidePad(whole, decimal, scale) ==
    LET Parsed(str) == [err |-> "", val |-> ParseFloat(str), str |-> str]
        Formatted(count) ==
            IF count < 0
            THEN [err |-> "panic", val |-> ParseFloat(<<"0">>), str |-> << >>]
            ELSE Parsed(FormatInt(whole) \o <<".">> \o RepeatZero(count)
                          \o FormatInt(decimal))
    IN  Formatted(getNumDigits(scale) - getNumDigits(decimal))

\* FormatAndParse with one leading zero less
FormatAndParseShortPad(whole, decimal, scale) ==
    LET Parsed(str) == [err |-> "", val |-> ParseFloat(str), str |-> str]
        Formatted(count) ==
            IF count < 0
            THEN [err |-> "panic", val |-> ParseFloat(<<"0">>), str |-> << >>]
            ELSE Parsed(FormatInt(whole) \o <<".">> \o RepeatZero(count)
                          \o FormatInt(decimal))
    IN  Formatted(getNumDigits(scale) - getNumDigits(decimal) - 2)

\* the text "%d.%s%d" of whole, the leading zeros and decimal, parsed as a
\* float64; strings.Repeat panics on a negative count
FormatAndParse(whole, decimal, scale) ==
    LET Parsed(str) == [err |-> "", val |-> ParseFloat(str), str |-> str]
        Formatted(count) ==
            IF count < 0
            THEN [err |-> "panic", val |-> ParseFloat(<<"0">>), str |-> << >>]
            ELSE Parsed(FormatInt(whole) \o <<".">> \o RepeatZero(count)
                          \o FormatInt(decimal))
    IN  Formatted(getNumDigits(scale) - getNumDigits(decimal) - 1)

\* CalculateExchangeRateAsFloat without the $DESO correction
CalculateExchangeRateAsFloatUncorrected(buyingCoin, sellingCoin, scaledValue) ==
    FormatAndParse(Div(scaledValue, OneE38), Mod(scaledValue, OneE38), OneE38)

\* CalculateExchangeRateAsFloat with the two corrections exchanged
CalculateExchangeRateAsFloatSwapped(buyingCoin, sellingCoin, scaledValue) ==
    LET Split(scaledValueAsBigInt) ==
            FormatAndParse(Div(scaledValueAsBigInt, OneE38),
                           Mod(scaledValueAsBigInt, OneE38), OneE38)
    IN  Split(IF buyingCoin = DESOCoin
              THEN Mul(scaledValue, getDESOToDAOCoinBaseUnitsScalingFactor)
              ELSE IF sellingCoin = DESOCoin
              THEN Div(scaledValue, getDESOToDAOCoinBaseUnitsScalingFactor)
              ELSE scaledValue)

CalculateExchangeRateAsFloat(buyingCoin, sellingCoin, scaledValue) ==
    LET Split(scaledValueAsBigInt) ==
            FormatAndParse(Div(scaledValueAsBigInt, OneE38),
                           Mod(scaledValueAsBigInt, OneE38), OneE38)
    IN  Split(IF buyingCoin = DESOCoin
              THEN Div(scaledValue, getDESOToDAOCoinBaseUnitsScalingFactor)
              ELSE IF sellingCoin = DESOCoin
              THEN Mul(scaledValue, getDESOToDAOCoinBaseUnitsScalingFactor)
              ELSE scaledValue)

(***************************************************************************)
(* The conversion of a scaled exchange rate to a price given as a decimal  *)
(* text.  The tests of the repository call it; its code is not among its   *)
(* sources.  It is modelled from CalculateExchangeRateAsFloat, whose       *)
(* correction for $DESO and whose text "%d.%s%d" it shares, and from the   *)
(* results its tests expect: the rate of an ASK order is inverted as the   *)
(* price of an ASK order is (DirectionalRate), and the zeros at the end of *)
(* the fraction are dropped down to one fractional digit.                  *)
(***************************************************************************)
\* the text of whole and of the fraction decimal / scale, without the zeros
\* at the end of the fraction but with one fractional digit at least
FormatScaledUint256AsDecimalString(scaled, scale) ==
    LET Trimmed(fraction) ==
            IF fraction = << >> THEN <<"0">>
            ELSE [i \in 1..Len(fraction) |-> CharOf(fraction[i])]
        Formatted(whole, decimal) ==
            FormatInt(whole) \o <<".">>
                \o Trimmed(StripTrailing(Zeros(Len(scale) - 1 - Len(decimal))
                                             \o decimal))
    IN  Formatted(Div(scaled, scale), Mod(scaled, scale))

\* CalculatePriceStringFromScaledExchangeRate with the two corrections
\* exchanged
CalculatePriceStringFromScaledExchangeRateSwapped(buyingCoin, sellingCoin, scaledValue, operationTypeString) ==
    LET Text(str) == [err |-> "", val |-> ParseFloat(str), str |-> str]
        Priced(scaledValueAsBigInt) ==
            IF /\ operationTypeString = DAOCoinLimitOrderOperationTypeStringASK
               /\ IsZero(scaledValueAsBigInt)
            THEN [err |-> "division by zero", val |-> ParseFloat(<<"0">>), str |-> << >>]
            ELSE Text(FormatScaledUint256AsDecimalString(
                          DirectionalRate(scaledValueAsBigInt, operationTypeString),
                          OneE38))
    IN  Priced(IF buyingCoin = DESOCoin
               THEN Mul(scaledValue, getDESOToDAOCoinBaseUnitsScalingFactor)
               ELSE IF sellingCoin = DESOCoin
               THEN Div(scaledValue, getDESOToDAOCoinBaseUnitsScalingFactor)
               ELSE scaledValue)

CalculatePriceStringFromScaledExchangeRate(buyingCoin, sellingCoin, scaledValue, operationTypeString) ==
    LET Text(str) == [err |-> "", val |-> ParseFloat(str), str |-> str]
        Priced(scaledValueAsBigInt) ==
            IF /\ operationTypeString = DAOCoinLimitOrderOperationTypeStringASK
               /\ IsZero(scaledValueAsBigInt)
            THEN [err |-> "division by zero", val |-> ParseFloat(<<"0">>), str |-> << >>]
            ELSE Text(FormatScaledUint256AsDecimalString(
                          DirectionalRate(scaledValueAsBigInt, operationTypeString),
                          OneE38))
    IN  Priced(IF buyingCoin = DESOCoin
               THEN Div(scaledValue, getDESOToDAOCoinBaseUnitsScalingFactor)
               ELSE IF sellingCoin = DESOCoin
               THEN Mul(scaledValue, getDESOToDAOCoinBaseUnitsScalingFactor)
               ELSE scaledValue)

\* isCoinToFillDESO with the two operation types exchanged
isCoinToFillDESOExchanged(buyingCoin, sellingCoin, operationTypeString) ==
    \/ buyingCoin = DESOCoin /\ operationTypeString = DAOCoinLimitOrderOperationTypeStringASK
    \/ sellingCoin = DESOCoin /\ operationTypeString = DAOCoinLimitOrderOperationTypeStringBID

isCoinToFillDESO(buyingCoin, sellingCoin, operationTypeString) ==
    \/ buyingCoin = DESOCoin /\ operationTypeString = DAOCoinLimitOrderOperationTypeStringBID
    \/ sellingCoin = DESOCoin /\ operationTypeString = DAOCoinLimitOrderOperationTypeStringASK

calculateQuantityToFillAsFloatWithScalingFactor(quantityAsScaledValue, scalingFactor) ==
    FormatAndParse(Uint256Div(quantityAsScaledValue, scalingFactor),
                   Uint256Mod(quantityAsScaledValue, scalingFactor), scalingFactor)

\* calculate (quantityInBaseUnits / 10^18)
calculateQuantityToFillFromDAOCoinBaseUnitsToFloat(quantityInBaseUnits) ==
    calculateQuantityToFillAsFloatWithScalingFactor(quantityInBaseUnits, BaseUnitsPerCoin)

\* calculate (quantityInNanos / 10^9)
calculateQuantityToFillFromDESONanosToFloat(quantityInNanos) ==
    calculateQuantityToFillAsFloatWithScalingFactor(quantityInNanos, NanosPerUnit)

\* CalculateQuantityToFillAsFloat that takes every quantity for DAO coin base
\* units
CalculateQuantityToFillAsFloatOfDAOCoin(buyingCoin, sellingCoin, operationTypeString, quantityToFillInBaseUnits) ==
    calculateQuantityToFillFromDAOCoinBaseUnitsToFloat(quantityToFillInBaseUnits)

CalculateQuantityToFillAsFloat(buyingCoin, sellingCoin, operationTypeString, quantityToFillInBaseUnits) ==
    IF isCoinToFillDESO(buyingCoin, sellingCoin, operationTypeString)
    THEN calculateQuantityToFillFromDESONanosToFloat(quantityToFillInBaseUnits)
    ELSE calculateQuantityToFillFromDAOCoinBaseUnitsToFloat(quantityToFillInBaseUnits)

(***************************************************************************)
(* The responses of the order listings                                     *)
(***************************************************************************)
\* lib.DAOCoinLimitOrderOperationTypeASK and ...BID of the ledger library
DAOCoinLimitOrderOperationTypeASK == 1
DAOCoinLimitOrderOperationTypeBID == 2

orderOperationTypeToString(orderOperationType) ==
    IF orderOperationType = DAOCoinLimitOrderOperationTypeASK
    THEN [err |-> "", val |-> DAOCoinLimitOrderOperationTypeStringASK]
    ELSE IF orderOperationType = DAOCoinLimitOrderOperationTypeBID
    THEN [err |-> "", val |-> DAOCoinLimitOrderOperationTypeStringBID]
    ELSE [err |-> "Unknown DAOCoinLimitOrderOperationType", val |-> ""]

\* the response of one order of the book, or the first error of its three
\* conversions
buildDAOCoinLimitOrderResponse(transactorPublicKeyBase58Check, buyingCoin, sellingCoin, order) ==
    LET Failed(err) == Err(err)
        Response(operationTypeString, exchangeRate, quantityToFill) ==
            [err |-> "",
             val |-> [TransactorPublicKeyBase58Check |-> transactorPublicKeyBase58Check,
                      BuyingDAOCoinCreatorPublicKeyBase58Check |-> buyingCoin,
                      SellingDAOCoinCreatorPublicKeyBase58Check |-> sellingCoin,
                      ExchangeRateCoinsToSellPerCoinToBuy |-> exchangeRate,
                      QuantityToFill |-> quantityToFill,
                      OperationType |-> operationTypeString,
                      OrderID |-> order.OrderID]]
        Filled(operationTypeString, exchangeRate, quantityToFill) ==
            IF quantityToFill.err # "" THEN Failed(quantityToFill.err)
            ELSE Response(operationTypeString, exchangeRate.val, quantityToFill.val)
        Priced(operationTypeString, exchangeRate) ==
            IF exchangeRate.err # "" THEN Failed(exchangeRate.err)
            ELSE Filled(operationTypeString, exchangeRate,
                        CalculateQuantityToFillAsFloat(
                            buyingCoin, sellingCoin, operationTypeString,
                            order.QuantityToFillInBaseUnits))
        Typed(operationTypeString) ==
            IF operationTypeString.err # "" THEN Failed(operationTypeString.err)
            ELSE Priced(operationTypeString.val,
                        CalculateExchangeRateAsFloat(
                            buyingCoin, sellingCoin,
                            order.ScaledExchangeRateCoinsToSellPerCoinToBuy))
    IN  Typed(orderOperationTypeToString(order.OperationType))

\* calculate (quantityToFill * scalingFactor)
calculateQuantityToFillToBaseUnitsWithScalingFactor(quantityToFill, scalingFactor) ==
    IF ~formatFloatAsStringReturns(quantityToFill)
    THEN NoReturn
    ELSE ScaleFloatFormatStringToUint256(formatFloatAsString(quantityToFill),
                                         scalingFactor)

\* calculate (quantityToFill * 10^18)
calculateQuantityToFillAsDAOCoinBaseUnits(quantityToFill) ==
    calculateQuantityToFillToBaseUnitsWithScalingFactor(quantityToFill, BaseUnitsPerCoin)

\* calculate (quantityToFill * 10^9)
calculateQuantityToFillAsDESONanos(quantityToFill) ==
    calculateQuantityToFillToBaseUnitsWithScalingFactor(quantityToFill, NanosPerUnit)

CalculateQuantityToFillAsBaseUnits(buyingCoin, sellingCoin, operationTypeString, quantityToFill) ==
    IF isCoinToFillDESO(buyingCoin, sellingCoin, operationTypeString)
    THEN calculateQuantityToFillAsDESONanos(quantityToFill)
    ELSE calculateQuantityToFillAsDAOCoinBaseUnits(quantityToFill)

(***************************************************************************)
(* Inputs                                                                  *)
(***************************************************************************)
\* A pair is never $DESO against $DESO: GetDAOCoinLimitOrders refuses a
\* request that names no DAO coin.
CoinPairs == {<<DESOCoin, DAOCoin>>, <<DAOCoin, DESOCoin>>, <<DAOCoin, DAOCoin>>}

OperationTypes == {DAOCoinLimitOrderOperationTypeStringBID,
                   DAOCoinLimitOrderOperationTypeStringASK}

\* the operation types an order of the book may carry: ASK, BID and a
\* number that is neither
LedgerOperationTypes == {DAOCoinLimitOrderOperationTypeASK,
                         DAOCoinLimitOrderOperationTypeBID, 3}

\* the significant digits of the float64 arguments
Mantissas == {<<1>>, <<9>>, <<1, 2>>}

\* the float64 arguments are m * 10^e for -MaxDown <= e <= MaxUp; the whole
\* numbers among them are held exactly by binary64 (m * 5^e < 2^53 up to
\* e = 21)
MaxDown == 18
MaxUp == 17

\* the float64 written m * 10^e, -MaxDown <= e <= MaxUp
Numeral(m, e) ==
    IF e >= 0
    THEN [whole |-> m \o Zeros(e), frac |-> << >>, int |-> m \o Zeros(e),
          neg |-> FALSE]
    ELSE LET all == Zeros(MaxOf(0, -e - Len(m))) \o m
             w   == Strip(SubSeq(all, 1, Len(all) + e))
         IN  [whole |-> w,
              frac  |-> StripTrailing(SubSeq(all, Len(all) + e + 1, Len(all))),
              int   |-> w,
              neg   |-> FALSE]

\* the float64 written m * 10^e whose binary64 value has the integer part int
Binary64(m, e, int) ==
    [whole |-> m \o Zeros(e), frac |-> << >>, int |-> int, neg |-> FALSE]

FloatZero == [whole |-> Zero, frac |-> << >>, int |-> Zero, neg |-> FALSE]

\* the float64 -f
Negative(f) == [f EXCEPT !.neg = TRUE]

\* float64 values of 10^22 and more, with their exact binary64 values, and
\* the two whole numbers of more than 15 digits of the tests
LargeFloats ==
    {
          Binary64(<<1>>, 22,
                   <<1,0,0,0,0,0,0,0,0,0,0,0,0,0,0,0,0,0,0,0,0,0,0>>),
          Binary64(<<1>>, 23,
                   <<9,9,9,9,9,9,9,9,9,9,9,9,9,9,9,9,1,6,1,1,3,9,2>>),
          Binary64(<<1>>, 25,
                   <<1,0,0,0,0,0,0,0,0,0,0,0,0,0,0,0,0,9,0,5,9,6,9,6,6,4>>),
          Binary64(<<1>>, 29,
                   <<9,9,9,9,9,9,9,9,9,9,9,9,9,9,9,9,1,4,3,3,1,5,0,8,5,7,2,1,6>>),
          Binary64(<<1>>, 30,
                   <<1,0,0,0,0,0,0,0,0,0,0,0,0,0,0,0,0,1,9,8,8,4,6,2,4,8,3,8,6,5,
                     6>>),
          Binary64(<<2>>, 30,
                   <<2,0,0,0,0,0,0,0,0,0,0,0,0,0,0,0,0,3,9,7,6,9,2,4,9,6,7,7,3,1,
                     2>>),
          Binary64(<<1>>, 38,
                   <<9,9,9,9,9,9,9,9,9,9,9,9,9,9,9,9,7,7,4,8,8,0,9,8,2,3,4,5,6,0,
                     3,4,0,2,9,5,6,8>>),
          Binary64(<<1>>, 39,
                   <<9,9,9,9,9,9,9,9,9,9,9,9,9,9,9,9,3,9,7,0,9,1,6,6,3,7,1,6,0,3,
                     1,7,8,5,8,6,1,1,2>>),
          Binary64(<<2>>, 39,
                   <<1,9,9,9,9,9,9,9,9,9,9,9,9,9,9,9,8,7,9,4,1,8,3,3,2,7,4,3,2,0,
                     6,3,5,7,1,7,2,2,2,4>>),
          Binary64(<<1>>, 40,
                   <<1,0,0,0,0,0,0,0,0,0,0,0,0,0,0,0,0,3,0,3,7,8,6,0,2,8,4,2,7,0,
                     0,3,6,6,6,8,9,0,7,5,2>>),
          Binary64(<<1>>, 59,
                   <<9,9,9,9,9,9,9,9,9,9,9,9,9,9,9,9,7,1,6,8,7,8,8,0,4,9,5,6,0,4,
                     6,4,2,0,0,8,4,9,9,3,6,3,2,8,3,6,6,1,7,7,1,5,7,9,0,6,4,3,2>>),
          Binary64(<<2>>, 59,
                   <<1,9,9,9,9,9,9,9,9,9,9,9,9,9,9,9,9,4,3,3,7,5,7,6,0,9,9,1,2,0,
                     9,2,8,4,0,1,6,9,9,8,7,2,6,5,6,7,3,2,3,5,4,3,1,5,8,1,2,8,6,4>>),
          Binary64(<<1>>, 68,
                   <<9,9,9,9,9,9,9,9,9,9,9,9,9,9,9,9,5,2,8,0,5,2,2,2,2,5,1,3,8,1,
                     6,6,8,0,6,6,9,1,2,5,1,2,9,1,3,5,2,8,6,1,6,9,8,5,3,0,4,2,1,6,
                     2,3,4,8,8,5,1,2>>),
          Binary64(<<2>>, 68,
                   <<1,9,9,9,9,9,9,9,9,9,9,9,9,9,9,9,9,0,5,6,1,0,4,4,4,5,0,2,7,6,
                     3,3,3,6,1,3,3,8,2,5,0,2,5,8,2,7,0,5,7,2,3,3,9,7,0,6,0,8,4,3,
                     2,4,6,9,7,7,0,2,4>>),
          [whole |-> <<1,0,0,0,0,0,0,0,0,0,0,0,0,0,0,1>>,
           frac |-> << >>,
           int |-> <<1,0,0,0,0,0,0,0,0,0,0,0,0,0,0,1>>,
           neg |-> FALSE],
          [whole |-> <<1,2,3,4,5,6,7,8,9,0,1,2,3,4,5,6,7,6,8>>,
           frac |-> << >>,
           int |-> <<1,2,3,4,5,6,7,8,9,0,1,2,3,4,5,6,7,6,8>>,
           neg |-> FALSE] }

\* the negative float64 arguments: -1 (which is -1.0), -1.1 and -0.1
NegativeFloats ==
    {Negative(Numeral(<<1>>, 0)), Negative(Numeral(<<1, 1>>, -1)),
     Negative(Numeral(<<1>>, -1))}

\* 1.9e-15, whose second digit is the 16th after the decimal point, and
\* 123456.5
OtherFloats == {Numeral(<<1, 9>>, -16), Numeral(<<1, 2, 3, 4, 5, 6, 5>>, -1)}

Floats ==
    {FloatZero} \cup LargeFloats \cup OtherFloats
      \cup {Numeral(m, e) : m \in Mantissas, e \in (-MaxDown)..MaxUp}

\* the uint256 arguments: 0, the largest value, the rate of the tests
\* (100.00000001 * 1e38) and m * 10^e
ScaledMantissas == {<<1>>, <<1, 2>>, <<9, 9, 9>>}
ScaledExponents == {0, 8, 9, 17, 18, 27, 29, 37, 38, 47, 65, 74}

ScaledValues ==
    {Zero, MaxUint256, <<1, 0, 0, 0, 0, 0, 0, 0, 0, 0, 1>> \o Zeros(30)}
      \cup {m \o Zeros(e) : m \in ScaledMantissas, e \in ScaledExponents}

\* the scaled rates converted to a price text: the rate of the price 100
\* for each kind of pair among them
PriceRates ==
    ScaledValues \cup {<<1>> \o Zeros(40), <<1>> \o Zeros(31), <<1>> \o Zeros(49),
                       <<3>> \o Zeros(38), <<1, 2, 5>> \o Zeros(34)}

\* the scaling factors the parser is called with
ScalingFactors == {OneE38, BaseUnitsPerCoin, NanosPerUnit}

\* the texts handed to the parser directly
Texts ==
    { << >>, <<".">>, <<"0">>, <<"0", ".", "0">>, <<".", "0">>,
      <<"-", "1">>, <<"-", "1", ".", "0">>, <<"-", "1", ".", "1">>, <<"-", ".", "1">>,
      <<"a">>, <<"2", ".", "a">>, <<"a", ".", "2">>, <<"a", ".", "b">>, <<".", "a">>,
      <<"1">>, <<"1", ".", "0">>, <<"2", "0">>, <<"3">>,
      <<"0", ".", "0", "0", "5">>, <<".", "0", "0", "5">>,
      <<"1", ".", "2", ".", "3">>,
      <<"1", ".">> \o RepeatZero(9),
      <<"1", ".">> \o RepeatZero(10),
      <<"0", ".", "0", "0", "5">> \o RepeatZero(6),
      <<"2", "0", ".", "5">> \o RepeatZero(8),
      <<"1", ".", "5">> \o RepeatZero(17),
      <<"0", ".", "0", "0", "5">> \o RepeatZero(35),
      <<"3", ".">> \o RepeatZero(38),
      <<"0", ".">> \o RepeatZero(37) \o <<"1">>,
      <<"0", ".">> \o RepeatZero(37) \o <<"1", "2", "3", "4">>,
      <<"0", ".">> \o RepeatZero(37) \o <<"1", "9">>,
      <<"0", ".", "0", "0", "0", "0", "0", "0", "0", "0", "1", "9">>,
      <<"0", ".">> \o RepeatZero(38) \o <<"1">>,
      <<"0", ".">> \o RepeatZero(38) \o <<"9">>,
      <<"1">> \o RepeatZero(38),
      <<"1">> \o RepeatZero(39),
      <<"1">> \o RepeatZero(40),
      <<"1", "1", "5", "7", "9", "2", "0", "8", "9">> \o RepeatZero(31),
      <<"1", "1", "5", "7", "9", "2", "0", "9">> \o RepeatZero(32) }

(***************************************************************************)
(* The big integers of the program as objects.  A *uint256.Int or *big.Int *)
(* is a pointer: the place of an object whose value a method may write.    *)
(* The shared objects are the uint256 the callers pass and the variables   *)
(* lib.OneE38 and lib.BaseUnitsPerCoin of the ledger library; every other  *)
(* object is made by a call and is named by its thread and its variable.   *)
(***************************************************************************)
Threads == {1, 2}

scaledValue == <<0, "scaledValue">>
libOneE38 == <<0, "lib.OneE38">>
libBaseUnitsPerCoin == <<0, "lib.BaseUnitsPerCoin">>
nil == <<0, "nil">>

SharedPlaces == {scaledValue, libOneE38, libBaseUnitsPerCoin}

LocalNames == {"scaledValueAsBigInt", "factor", "oneE38AsBigInt", "whole", "decimal"}

Places == SharedPlaces \cup (Threads \X LocalNames)

\* the objects at the start: the argument holds value, the library's
\* variables hold their constants, no call has made an object
Startup(value) ==
    [p \in Places |->
        CASE p = scaledValue -> value
          [] p = libOneE38 -> OneE38
          [] p = libBaseUnitsPerCoin -> BaseUnitsPerCoin
          [] OTHER -> Zero]

\* a thread that is in no call
IdleFrame ==
    [function |-> "", buying |-> DAOCoin, selling |-> DAOCoin,
     value |-> nil, scale |-> nil,
     ret |-> [err |-> "", val |-> ParseFloat(<<"0">>), str |-> << >>],
     overlapped |-> FALSE]

\* the values the concurrent callers pass
SharedValues ==
    {<<1, 2>> \o Zeros(38), <<9, 9, 9>> \o Zeros(17),
     <<1, 0, 0, 0, 0, 0, 0, 0, 0, 0, 1>> \o Zeros(30), <<1, 2>> \o Zeros(47)}

(***************************************************************************)
(* The order listings.  The ledger (lib.UtxoView) holds the orders; its    *)
(* lookups return the orders of a pair, or of a transactor, in the order   *)
(* the ledger holds them.  A coin is named by a public key or username,    *)
(* $DESO by the empty name and the zero PKID.                              *)
(***************************************************************************)
\* the most orders the ledger holds
MaxOrders == 3

\* what an order of the ledger may be, but for its OrderID
OrderKinds ==
    { [BuyingDAOCoinCreatorPKID |-> DAOCoin, SellingDAOCoinCreatorPKID |-> DESOCoin,
       OperationType |-> DAOCoinLimitOrderOperationTypeBID,
       ScaledExchangeRateCoinsToSellPerCoinToBuy |-> <<1, 2>> \o Zeros(38),
       QuantityToFillInBaseUnits |-> <<9, 9, 9>> \o Zeros(17)],
      [BuyingDAOCoinCreatorPKID |-> DAOCoin, SellingDAOCoinCreatorPKID |-> DESOCoin,
       OperationType |-> 3,
       ScaledExchangeRateCoinsToSellPerCoinToBuy |-> <<1, 2>> \o Zeros(38),
       QuantityToFillInBaseUnits |-> <<9, 9, 9>> \o Zeros(17)],
      [BuyingDAOCoinCreatorPKID |-> DESOCoin, SellingDAOCoinCreatorPKID |-> DAOCoin,
       OperationType |-> DAOCoinLimitOrderOperationTypeASK,
       ScaledExchangeRateCoinsToSellPerCoinToBuy |-> MaxUint256,
       QuantityToFillInBaseUnits |-> MaxUint256],
      [BuyingDAOCoinCreatorPKID |-> DAOCoin, SellingDAOCoinCreatorPKID |-> DESOCoin,
       OperationType |-> DAOCoinLimitOrderOperationTypeASK,
       ScaledExchangeRateCoinsToSellPerCoinToBuy |-> Zero,
       QuantityToFillInBaseUnits |-> Zero] }

\* the ledgers: up to MaxOrders orders, each with its own OrderID
Books ==
    UNION { { [i \in 1..n |->
                  [OrderID |-> i,
                   TransactorPKID |-> "transactor",
                   BuyingDAOCoinCreatorPKID |-> kinds[i].BuyingDAOCoinCreatorPKID,
                   SellingDAOCoinCreatorPKID |-> kinds[i].SellingDAOCoinCreatorPKID,
                   OperationType |-> kinds[i].OperationType,
                   ScaledExchangeRateCoinsToSellPerCoinToBuy |->
                       kinds[i].ScaledExchangeRateCoinsToSellPerCoinToBuy,
                   QuantityToFillInBaseUnits |-> kinds[i].QuantityToFillInBaseUnits]] :
                kinds \in [1..n -> OrderKinds] } : n \in 0..MaxOrders }

\* the names a request may carry: none, a known public key, an unknown name
PublicKeyBase58CheckOrUsernames == {"", DAOCoin, "transactor", "nobody"}

\* what may fail in the ledger while a request is served
Faults == {"", "GetAugmentedUniversalView", "GetAllDAOCoinLimitOrders"}

\* before the first request
NoRequest == [coin1 |-> "", coin2 |-> "", transactor |-> "", fault |-> ""]
NoReply == [code |-> 0, Orders |-> << >>]
NoWork == [lookups |-> 0, conversions |-> 0]

(***************************************************************************)
(* The referral links of the admin handlers (routes/admin_referrals.go).   *)
(* The server keeps two indexes in its key-value store: the ReferralInfo   *)
(* of each referral hash, and the IsActive status of each (PKID, hash).    *)
(***************************************************************************)
CSVColumnReferralHash == 0
CSVColumnPKID == 2
CSVColumnReferrerAmount == 3
CSVColumnRefereeAmount == 4
CSVColumnMaxReferrals == 5
CSVColumnRequiresJumio == 6
CSVColumnTstampNanos == 11
CSVColumnIsActive == 12

\* the most links the store is let grow to
MaxLinks == 2

\* the most data rows of an uploaded file
MaxRows == 2

\* the public keys of the users; the PKID of a key is the key
PublicKeys == {"referrer", "other", "admin"}

SuperAdminPublicKeys == {"admin"}

\* the hashes generateNewReferralHash draws, eight characters each
ReferralHashes ==
    <<"hashAAAA", "hashBBBB", "hashCCCC", "hashDDDD", "hashEEEE", "hashFFFF">>

\* len of the texts a referral hash cell holds
len(text) ==
    CASE text = "" -> 0
      [] text = "short" -> 5
      [] OTHER -> 8

\* what time.Now().UnixNano() reads
UnixNano == 2

\* the store calls that may fail while a request is served
StoreFaults == {"", "Get", "Put info", "Put status"}

referralLimitUSD == 100000

NoReferralInfo ==
    [ReferralHashBase58 |-> "", ReferrerPKID |-> "", ReferrerAmountUSDCents |-> 0,
     RefereeAmountUSDCents |-> 0, MaxReferrals |-> 0, RequiresJumio |-> FALSE,
     NumJumioAttempts |-> 0, NumJumioSuccesses |-> 0, TotalReferrerDeSoNanos |-> 0,
     TotalRefereeDeSoNanos |-> 0, DateCreatedTStampNanos |-> 0]

\* a store that holds nothing
NoEntries == [key \in {} |-> 0]
EmptyGlobalState ==
    [ReferralHashToReferralInfo |-> NoEntries, PKIDReferralHashToIsActive |-> NoEntries]

\* the store after Put(key, value) under one prefix
Put(entries, key, value) ==
    [k \in DOMAIN entries \cup {key} |-> IF k = key THEN value ELSE entries[k]]

\* a link that was made and used before the first request: the sign-up flow
\* has counted attempts and payouts on it
UsedLink ==
    [NoReferralInfo EXCEPT !.ReferralHashBase58 = ReferralHashes[1],
                           !.ReferrerPKID = "referrer",
                           !.ReferrerAmountUSDCents = 500,
                           !.RefereeAmountUSDCents = 500,
                           !.MaxReferrals = 10, !.RequiresJumio = TRUE,
                           !.NumJumioAttempts = 3, !.NumJumioSuccesses = 2,
                           !.TotalReferrerDeSoNanos = 7, !.TotalRefereeDeSoNanos = 5,
                           !.DateCreatedTStampNanos = 1]

\* the stores a server may start with
GlobalStates ==
    {EmptyGlobalState,
     [ReferralHashToReferralInfo |-> Put(NoEntries, UsedLink.ReferralHashBase58, UsedLink),
      PKIDReferralHashToIsActive |->
          Put(NoEntries, <<UsedLink.ReferrerPKID, UsedLink.ReferralHashBase58>>, TRUE)]}

NoAdminReply ==
    [handler |-> "", code |-> 0, UserPublicKeyBase58Check |-> "",
     JWT |-> "", ReferralHashBase58 |-> "", rows |-> 0, rowIdx |-> 0,
     LinksCreated |-> 0, LinksUpdated |-> 0]

\* no referral request was served
NoReferrals ==
    /\ GlobalState = EmptyGlobalState
    /\ adminReply = NoAdminReply
    /\ puts = << >>

\* the checksum tool was not started
NoChecksumTool ==
    /\ dbSnap = << >>
    /\ mainAt = ""
    /\ nextPrefix = 0
    /\ sem = 0
    /\ routines = << >>
    /\ Checksum = << >>
    /\ checksumBytes = << >>

(***************************************************************************)
(* The state machine: a caller calls one conversion function, may convert  *)
(* the result back, and drops the result before its next call.  The        *)
(* functions keep no state; the variables record the caller's last call.   *)
(***************************************************************************)
Init ==
    /\ fn = ""
    /\ buying = DAOCoin
    /\ selling = DAOCoin
    /\ operationType = ""
    /\ floatArg = FloatZero
    /\ scaledArg = Zero
    /\ textArg = << >>
    /\ ret = Ok(Zero)
    /\ chained = FALSE
    /\ parserRejectsZero \in BOOLEAN
    /\ given = Zero
    /\ heap = Startup(Zero)
    /\ pc = [t \in Threads |-> "idle"]
    /\ frame = [t \in Threads |-> IdleFrame]
    /\ book = << >>
    /\ handler = ""
    /\ request = NoRequest
    /\ reply = NoReply
    /\ work = NoWork
    /\ NoReferrals
    /\ NoChecksumTool

\* a price is converted to the scaled exchange rate of an order
CallCalculateScaledExchangeRate ==
    \E pair \in CoinPairs, f \in Floats \cup NegativeFloats :
        /\ fn = ""
        /\ fn' = "CalculateScaledExchangeRate"
        /\ buying' = pair[1]
        /\ selling' = pair[2]
        /\ operationType' = ""
        /\ floatArg' = f
        /\ scaledArg' = Zero
        /\ textArg' = << >>
        /\ ret' = CalculateScaledExchangeRate(pair[1], pair[2], f)
        /\ chained' = FALSE
        /\ UNCHANGED <<parserRejectsZero, besidesCalls>>

\* the scaled exchange rate of an order of the book is converted to a price
CallCalculateExchangeRateAsFloat ==
    \E pair \in CoinPairs, s \in ScaledValues :
        /\ fn = ""
        /\ fn' = "CalculateExchangeRateAsFloat"
        /\ buying' = pair[1]
        /\ selling' = pair[2]
        /\ operationType' = ""
        /\ floatArg' = FloatZero
        /\ scaledArg' = s
        /\ textArg' = << >>
        /\ ret' = CalculateExchangeRateAsFloat(pair[1], pair[2], s)
        /\ chained' = FALSE
        /\ UNCHANGED <<parserRejectsZero, besidesCalls>>

\* the scaled exchange rate just computed is converted back to a price
CallExchangeRateBack ==
    /\ fn = "CalculateScaledExchangeRate"
    /\ ret.err = ""
    /\ fn' = "CalculateExchangeRateAsFloat"
    /\ scaledArg' = ret.val
    /\ ret' = CalculateExchangeRateAsFloat(buying, selling, ret.val)
    /\ chained' = TRUE
    /\ UNCHANGED <<buying, selling, operationType, floatArg, textArg, parserRejectsZero,
                   besidesCalls>>

\* a quantity is converted to the base units of an order
CallCalculateQuantityToFillAsBaseUnits ==
    \E pair \in CoinPairs, op \in OperationTypes, f \in Floats \cup NegativeFloats :
        /\ fn = ""
        /\ fn' = "CalculateQuantityToFillAsBaseUnits"
        /\ buying' = pair[1]
        /\ selling' = pair[2]
        /\ operationType' = op
        /\ floatArg' = f
        /\ scaledArg' = Zero
        /\ textArg' = << >>
        /\ ret' = CalculateQuantityToFillAsBaseUnits(pair[1], pair[2], op, f)
        /\ chained' = FALSE
        /\ UNCHANGED <<parserRejectsZero, besidesCalls>>

\* the base units of an order of the book are converted to a quantity
CallCalculateQuantityToFillAsFloat ==
    \E pair \in CoinPairs, op \in OperationTypes, s \in ScaledValues :
        /\ fn = ""
        /\ fn' = "CalculateQuantityToFillAsFloat"
        /\ buying' = pair[1]
        /\ selling' = pair[2]
        /\ operationType' = op
        /\ floatArg' = FloatZero
        /\ scaledArg' = s
        /\ textArg' = << >>
        /\ ret' = CalculateQuantityToFillAsFloat(pair[1], pair[2], op, s)
        /\ chained' = FALSE
        /\ UNCHANGED <<parserRejectsZero, besidesCalls>>

\* the base units just computed are converted back to a quantity
CallQuantityBack ==
    /\ fn = "CalculateQuantityToFillAsBaseUnits"
    /\ ret.err = ""
    /\ fn' = "CalculateQuantityToFillAsFloat"
    /\ scaledArg' = ret.val
    /\ ret' = CalculateQuantityToFillAsFloat(buying, selling, operationType, ret.val)
    /\ chained' = TRUE
    /\ UNCHANGED <<buying, selling, operationType, floatArg, textArg, parserRejectsZero,
                   besidesCalls>>

\* a decimal text is scaled by the parser; scaledArg records the factor
CallScaleFloatFormatStringToUint256 ==
    \E t \in Texts, factor \in ScalingFactors :
        /\ fn = ""
        /\ fn' = "ScaleFloatFormatStringToUint256"
        /\ buying' = DAOCoin
        /\ selling' = DAOCoin
        /\ operationType' = ""
        /\ floatArg' = FloatZero
        /\ scaledArg' = factor
        /\ textArg' = t
        /\ ret' = ScaleFloatFormatStringToUint256(t, factor)
        /\ chained' = FALSE
        /\ UNCHANGED <<parserRejectsZero, besidesCalls>>

\* the value the parser just returned is written back as a decimal by the
\* formatting of calculateQuantityToFillAsFloatWithScalingFactor, with the
\* factor the parser was given
CallTextBack ==
    /\ fn = "ScaleFloatFormatStringToUint256"
    /\ ret.err = ""
    /\ fn' = "calculateQuantityToFillAsFloatWithScalingFactor"
    /\ ret' = calculateQuantityToFillAsFloatWithScalingFactor(ret.val, scaledArg)
    /\ chained' = TRUE
    /\ UNCHANGED <<buying, selling, operationType, floatArg, scaledArg, textArg,
                   parserRejectsZero,
                   besidesCalls>>

\* a price given as a decimal text is converted to the scaled exchange rate
\* of an order
CallCalculateScaledExchangeRateFromPriceString ==
    \E pair \in CoinPairs, op \in OperationTypes, t \in Texts :
        /\ fn = ""
        /\ fn' = "CalculateScaledExchangeRateFromPriceString"
        /\ buying' = pair[1]
        /\ selling' = pair[2]
        /\ operationType' = op
        /\ floatArg' = FloatZero
        /\ scaledArg' = Zero
        /\ textArg' = t
        /\ ret' = CalculateScaledExchangeRateFromPriceString(pair[1], pair[2], t, op)
        /\ chained' = FALSE
        /\ UNCHANGED <<parserRejectsZero, besidesCalls>>

\* a scaled exchange rate is converted to a price given as a decimal text
CallCalculatePriceStringFromScaledExchangeRate ==
    \E pair \in CoinPairs, op \in OperationTypes, s \in PriceRates :
        /\ fn = ""
        /\ fn' = "CalculatePriceStringFromScaledExchangeRate"
        /\ buying' = pair[1]
        /\ selling' = pair[2]
        /\ operationType' = op
        /\ floatArg' = FloatZero
        /\ scaledArg' = s
        /\ textArg' = << >>
        /\ ret' = CalculatePriceStringFromScaledExchangeRate(pair[1], pair[2], s, op)
        /\ chained' = FALSE
        /\ UNCHANGED <<parserRejectsZero, besidesCalls>>

\* the response of an order of the book is built: its rate and its quantity
\* are the uint256 s
CallBuildDAOCoinLimitOrderResponse ==
    \E pair \in CoinPairs, op \in LedgerOperationTypes, s \in ScaledValues :
        /\ fn = ""
        /\ fn' = "buildDAOCoinLimitOrderResponse"
        /\ buying' = pair[1]
        /\ selling' = pair[2]
        /\ operationType' = orderOperationTypeToString(op).val
        /\ floatArg' = FloatZero
        /\ scaledArg' = s
        /\ textArg' = << >>
        /\ ret' = buildDAOCoinLimitOrderResponse(
                      "transactor", pair[1], pair[2],
                      [OrderID |-> 1, OperationType |-> op,
                       ScaledExchangeRateCoinsToSellPerCoinToBuy |-> s,
                       QuantityToFillInBaseUnits |-> s])
        /\ chained' = FALSE
        /\ UNCHANGED <<parserRejectsZero, besidesCalls>>

\* the caller is done with the result of a call that returned
Return ==
    /\ fn # ""
    /\ ret.err # NoReturn.err
    /\ fn' = ""
    /\ buying' = DAOCoin
    /\ selling' = DAOCoin
    /\ operationType' = ""
    /\ floatArg' = FloatZero
    /\ scaledArg' = Zero
    /\ textArg' = << >>
    /\ ret' = Ok(Zero)
    /\ chained' = FALSE
    /\ UNCHANGED <<parserRejectsZero, besidesCalls>>

Next ==
    \/ CallCalculateScaledExchangeRate
    \/ CallCalculateExchangeRateAsFloat
    \/ CallExchangeRateBack
    \/ CallCalculateQuantityToFillAsBaseUnits
    \/ CallCalculateQuantityToFillAsFloat
    \/ CallQuantityBack
    \/ CallScaleFloatFormatStringToUint256
    \/ CallTextBack
    \/ CallCalculateScaledExchangeRateFromPriceString
    \/ CallCalculatePriceStringFromScaledExchangeRate
    \/ CallBuildDAOCoinLimitOrderResponse
    \/ Return

Spec == Init /\ [][Next]_vars

(***************************************************************************)
(* Concurrent callers: two threads call CalculateExchangeRateAsFloat or    *)
(* calculateQuantityToFillFromDAOCoinBaseUnitsToFloat with the same        *)
(* uint256, one statement at a time, in any order.                         *)
(***************************************************************************)
\* z.ToBig() with the pointer z sharing the object of z
ToBigShared(z, at) == [at |-> z, val |-> heap[z]]

\* z.ToBig(): a new big.Int, at the place at, with the value of z
ToBig(z, at) == [at |-> at, val |-> heap[z]]

\* the objects after object is made or written
Store(object) == [heap EXCEPT ![object.at] = object.val]

InCall(t) == pc[t] \notin {"idle", "done"}

InitThreads ==
    /\ fn = ""
    /\ buying = DAOCoin
    /\ selling = DAOCoin
    /\ operationType = ""
    /\ floatArg = FloatZero
    /\ scaledArg = Zero
    /\ textArg = << >>
    /\ ret = Ok(Zero)
    /\ chained = FALSE
    /\ parserRejectsZero = FALSE
    /\ given \in SharedValues
    /\ heap = Startup(given)
    /\ pc = [t \in Threads |-> "idle"]
    /\ frame = [t \in Threads |-> IdleFrame]
    /\ book = << >>
    /\ handler = ""
    /\ request = NoRequest
    /\ reply = NoReply
    /\ work = NoWork
    /\ NoReferrals
    /\ NoChecksumTool

\* a call that starts while another thread is in a call overlaps it
Begun(t, called) ==
    [u \in Threads |->
        IF u = t THEN [called EXCEPT !.overlapped = \E v \in Threads \ {t} : InCall(v)]
        ELSE IF InCall(u) THEN [frame[u] EXCEPT !.overlapped = TRUE]
        ELSE frame[u]]

\* thread t calls CalculateExchangeRateAsFloat with the shared uint256
BeginCalculateExchangeRateAsFloat(t) ==
    \E pair \in CoinPairs :
        /\ pc[t] = "idle"
        /\ frame' = Begun(t, [IdleFrame EXCEPT !.function = "CalculateExchangeRateAsFloat",
                                               !.buying = pair[1],
                                               !.selling = pair[2]])
        /\ pc' = [pc EXCEPT ![t] = "ToBig"]
        /\ UNCHANGED <<heap, given, besidesThreads>>

\* scaledValueAsBigInt := scaledValue.ToBig()
StepToBig(t) ==
    LET Made(object) ==
            /\ heap' = Store(object)
            /\ frame' = [frame EXCEPT ![t].value = object.at]
    IN  /\ pc[t] = "ToBig"
        /\ Made(ToBig(scaledValue, <<t, "scaledValueAsBigInt">>))
        /\ pc' = [pc EXCEPT ![t] = IF DESOCoin \in {frame[t].buying, frame[t].selling}
                                   THEN "Factor" ELSE "OneE38"]
        /\ UNCHANGED <<given, besidesThreads>>

\* getDESOToDAOCoinBaseUnitsScalingFactor().ToBig(): a new uint256 of
\* lib.BaseUnitsPerCoin divided by lib.NanosPerUnit
StepFactor(t) ==
    /\ pc[t] = "Factor"
    /\ heap' = [heap EXCEPT ![<<t, "factor">>] =
                                Uint256Div(heap[libBaseUnitsPerCoin], NanosPerUnit)]
    /\ pc' = [pc EXCEPT ![t] = "Correct"]
    /\ UNCHANGED <<frame, given, besidesThreads>>

\* scaledValueAsBigInt.Div or .Mul (scaledValueAsBigInt, the factor): the
\* result is written to the object scaledValueAsBigInt points to
StepCorrect(t) ==
    /\ pc[t] = "Correct"
    /\ heap' = [heap EXCEPT ![frame[t].value] =
                                IF frame[t].buying = DESOCoin
                                THEN Div(@, heap[<<t, "factor">>])
                                ELSE Mul(@, heap[<<t, "factor">>])]
    /\ pc' = [pc EXCEPT ![t] = "OneE38"]
    /\ UNCHANGED <<frame, given, besidesThreads>>

\* oneE38AsBigInt := lib.OneE38.ToBig()
StepOneE38(t) ==
    LET Made(object) ==
            /\ heap' = Store(object)
            /\ frame' = [frame EXCEPT ![t].scale = object.at]
    IN  /\ pc[t] = "OneE38"
        /\ Made(ToBig(libOneE38, <<t, "oneE38AsBigInt">>))
        /\ pc' = [pc EXCEPT ![t] = "Whole"]
        /\ UNCHANGED <<given, besidesThreads>>

\* thread t calls calculateQuantityToFillFromDAOCoinBaseUnitsToFloat with
\* the shared uint256: the scaling factor is the pointer lib.BaseUnitsPerCoin
BeginCalculateQuantityToFillFromDAOCoinBaseUnitsToFloat(t) ==
    /\ pc[t] = "idle"
    /\ frame' = Begun(t, [IdleFrame EXCEPT
                              !.function = "calculateQuantityToFillFromDAOCoinBaseUnitsToFloat",
                              !.value = scaledValue,
                              !.scale = libBaseUnitsPerCoin])
    /\ pc' = [pc EXCEPT ![t] = "Whole"]
    /\ UNCHANGED <<heap, given, besidesThreads>>

\* whole := a new integer .Div(the value, the scale)
StepWhole(t) ==
    /\ pc[t] = "Whole"
    /\ heap' = [heap EXCEPT ![<<t, "whole">>] =
                                Div(heap[frame[t].value], heap[frame[t].scale])]
    /\ pc' = [pc EXCEPT ![t] = "Decimal"]
    /\ UNCHANGED <<frame, given, besidesThreads>>

\* decimal := a new integer .Mod(the value, the scale)
StepDecimal(t) ==
    /\ pc[t] = "Decimal"
    /\ heap' = [heap EXCEPT ![<<t, "decimal">>] =
                                Mod(heap[frame[t].value], heap[frame[t].scale])]
    /\ pc' = [pc EXCEPT ![t] = "Format"]
    /\ UNCHANGED <<frame, given, besidesThreads>>

\* the text of whole, the leading zeros and decimal, parsed: getNumDigits
\* works on a copy of its argument (quotient := big.NewInt(0).Set(val))
StepFormat(t) ==
    /\ pc[t] = "Format"
    /\ frame' = [frame EXCEPT ![t].ret =
                     FormatAndParse(heap[<<t, "whole">>], heap[<<t, "decimal">>],
                                    heap[frame[t].scale])]
    /\ pc' = [pc EXCEPT ![t] = "done"]
    /\ UNCHANGED <<heap, given, besidesThreads>>

\* the call of thread t has returned and its objects are dropped
ReturnThread(t) ==
    /\ pc[t] = "done"
    /\ pc' = [pc EXCEPT ![t] = "idle"]
    /\ frame' = [frame EXCEPT ![t] = IdleFrame]
    /\ heap' = [p \in Places |-> IF p[1] = t THEN Zero ELSE heap[p]]
    /\ UNCHANGED <<given, besidesThreads>>

NextThreads ==
    \/ \E t \in Threads : BeginCalculateExchangeRateAsFloat(t)
    \/ \E t \in Threads : StepToBig(t)
    \/ \E t \in Threads : StepFactor(t)
    \/ \E t \in Threads : StepCorrect(t)
    \/ \E t \in Threads : StepOneE38(t)
    \/ \E t \in Threads : BeginCalculateQuantityToFillFromDAOCoinBaseUnitsToFloat(t)
    \/ \E t \in Threads : StepWhole(t)
    \/ \E t \in Threads : StepDecimal(t)
    \/ \E t \in Threads : StepFormat(t)
    \/ \E t \in Threads : ReturnThread(t)

SpecThreads == InitThreads /\ [][NextThreads]_vars

(***************************************************************************)
(* The order listings of the server                                        *)
(***************************************************************************)
\* utxoView.GetAllDAOCoinLimitOrdersForThisDAOCoinPair
GetAllDAOCoinLimitOrdersForThisDAOCoinPair(buyingPKID, sellingPKID) ==
    LET Matches(order) == /\ order.BuyingDAOCoinCreatorPKID = buyingPKID
                          /\ order.SellingDAOCoinCreatorPKID = sellingPKID
    IN  SelectSeq(book, Matches)

\* utxoView.GetAllDAOCoinLimitOrdersForThisTransactor
GetAllDAOCoinLimitOrdersForThisTransactor(transactorPKID) ==
    LET Matches(order) == order.TransactorPKID = transactorPKID
    IN  SelectSeq(book, Matches)

\* the listing of a pair that stops at the first order it cannot convert
buildDAOCoinLimitOrderResponsesFromEntriesForCoinPairStopping(buyingCoin, sellingCoin, orders) ==
    LET RECURSIVE Loop(_, _)
        Loop(i, responses) ==
            IF i > Len(orders) THEN responses
            ELSE LET Next1(response) ==
                         IF response.err # "" THEN responses
                         ELSE Loop(i + 1, Append(responses, response.val))
                 IN  Next1(buildDAOCoinLimitOrderResponse(
                               orders[i].TransactorPKID, buyingCoin, sellingCoin, orders[i]))
    IN  Loop(1, << >>)

\* for _, order := range orders: an order that fails is skipped (continue),
\* the response of every other order is appended
buildDAOCoinLimitOrderResponsesFromEntriesForCoinPair(buyingCoin, sellingCoin, orders) ==
    LET RECURSIVE Loop(_, _)
        Loop(i, responses) ==
            IF i > Len(orders) THEN responses
            ELSE LET Next1(response) ==
                         IF response.err # "" THEN Loop(i + 1, responses)
                         ELSE Loop(i + 1, Append(responses, response.val))
                 IN  Next1(buildDAOCoinLimitOrderResponse(
                               orders[i].TransactorPKID, buyingCoin, sellingCoin, orders[i]))
    IN  Loop(1, << >>)

\* the same loop with the coins of each order taken from the order
\* (getPublicKeyBase58CheckForPKID: "" for the zero PKID)
buildDAOCoinLimitOrderResponsesForTransactor(transactorPublicKeyBase58Check, orders) ==
    LET RECURSIVE Loop(_, _)
        Loop(i, responses) ==
            IF i > Len(orders) THEN responses
            ELSE LET Next1(response) ==
                         IF response.err # "" THEN Loop(i + 1, responses)
                         ELSE Loop(i + 1, Append(responses, response.val))
                 IN  Next1(buildDAOCoinLimitOrderResponse(
                               transactorPublicKeyBase58Check,
                               orders[i].BuyingDAOCoinCreatorPKID,
                               orders[i].SellingDAOCoinCreatorPKID, orders[i]))
    IN  Loop(1, << >>)

\* an answer without orders
Refused(code, lookups) ==
    [reply |-> [code |-> code, Orders |-> << >>],
     work |-> [lookups |-> lookups, conversions |-> 0]]

\* GetDAOCoinLimitOrders without its demand for one coin name at least
GetDAOCoinLimitOrdersOfAnyPair(requestData) ==
    LET Listed(ordersBuyingCoin1, ordersBuyingCoin2) ==
            [reply |-> [code |-> 200,
                        Orders |->
                            buildDAOCoinLimitOrderResponsesFromEntriesForCoinPair(
                                requestData.coin1, requestData.coin2, ordersBuyingCoin1)
                            \o buildDAOCoinLimitOrderResponsesFromEntriesForCoinPair(
                                requestData.coin2, requestData.coin1, ordersBuyingCoin2)],
             work |-> [lookups |-> 2,
                       conversions |-> Len(ordersBuyingCoin1) + Len(ordersBuyingCoin2)]]
    IN  IF requestData.fault = "GetAugmentedUniversalView" THEN Refused(500, 0)
        ELSE IF "nobody" \in {requestData.coin1, requestData.coin2} THEN Refused(400, 0)
        ELSE IF requestData.fault = "GetAllDAOCoinLimitOrders" THEN Refused(500, 1)
        ELSE Listed(GetAllDAOCoinLimitOrdersForThisDAOCoinPair(
                        requestData.coin1, requestData.coin2),
                    GetAllDAOCoinLimitOrdersForThisDAOCoinPair(
                        requestData.coin2, requestData.coin1))

\* the answer of GetDAOCoinLimitOrders and the work done for it
GetDAOCoinLimitOrdersAnswer(requestData) ==
    LET Listed(ordersBuyingCoin1, ordersBuyingCoin2) ==
            [reply |-> [code |-> 200,
                        Orders |->
                            buildDAOCoinLimitOrderResponsesFromEntriesForCoinPair(
                                requestData.coin1, requestData.coin2, ordersBuyingCoin1)
                            \o buildDAOCoinLimitOrderResponsesFromEntriesForCoinPair(
                                requestData.coin2, requestData.coin1, ordersBuyingCoin2)],
             work |-> [lookups |-> 2,
                       conversions |-> Len(ordersBuyingCoin1) + Len(ordersBuyingCoin2)]]
    IN  IF requestData.coin1 = "" /\ requestData.coin2 = "" THEN Refused(400, 0)
        ELSE IF requestData.fault = "GetAugmentedUniversalView" THEN Refused(500, 0)
        ELSE IF "nobody" \in {requestData.coin1, requestData.coin2} THEN Refused(400, 0)
        ELSE IF requestData.fault = "GetAllDAOCoinLimitOrders" THEN Refused(500, 1)
        ELSE Listed(GetAllDAOCoinLimitOrdersForThisDAOCoinPair(
                        requestData.coin1, requestData.coin2),
                    GetAllDAOCoinLimitOrdersForThisDAOCoinPair(
                        requestData.coin2, requestData.coin1))

\* the answer of GetTransactorDAOCoinLimitOrders and the work done for it
GetTransactorDAOCoinLimitOrdersAnswer(requestData) ==
    LET Listed(orders) ==
            [reply |-> [code |-> 200,
                        Orders |-> buildDAOCoinLimitOrderResponsesForTransactor(
                                       requestData.transactor, orders)],
             work |-> [lookups |-> 1, conversions |-> Len(orders)]]
    IN  IF requestData.fault = "GetAugmentedUniversalView" THEN Refused(500, 0)
        ELSE IF requestData.transactor \in {"", "nobody"} THEN Refused(400, 0)
        ELSE IF requestData.fault = "GetAllDAOCoinLimitOrders" THEN Refused(500, 1)
        ELSE Listed(GetAllDAOCoinLimitOrdersForThisTransactor(requestData.transactor))

InitOrders ==
    /\ fn = ""
    /\ buying = DAOCoin
    /\ selling = DAOCoin
    /\ operationType = ""
    /\ floatArg = FloatZero
    /\ scaledArg = Zero
    /\ textArg = << >>
    /\ ret = Ok(Zero)
    /\ chained = FALSE
    /\ parserRejectsZero = FALSE
    /\ given = Zero
    /\ heap = Startup(Zero)
    /\ pc = [t \in Threads |-> "idle"]
    /\ frame = [t \in Threads |-> IdleFrame]
    /\ book \in Books
    /\ handler = ""
    /\ request = NoRequest
    /\ reply = NoReply
    /\ work = NoWork
    /\ NoReferrals
    /\ NoChecksumTool

GetDAOCoinLimitOrders ==
    \E coin1 \in PublicKeyBase58CheckOrUsernames \ {"transactor"},
       coin2 \in PublicKeyBase58CheckOrUsernames \ {"transactor"},
       fault \in Faults :
        LET Answered(answer) == reply' = answer.reply /\ work' = answer.work
        IN  /\ handler = ""
            /\ handler' = "GetDAOCoinLimitOrders"
            /\ request' = [NoRequest EXCEPT !.coin1 = coin1, !.coin2 = coin2,
                                             !.fault = fault]
            /\ Answered(GetDAOCoinLimitOrdersAnswer(request'))
            /\ UNCHANGED <<book, besidesOrders>>

GetTransactorDAOCoinLimitOrders ==
    \E transactor \in PublicKeyBase58CheckOrUsernames \ {DAOCoin}, fault \in Faults :
        LET Answered(answer) == reply' = answer.reply /\ work' = answer.work
        IN  /\ handler = ""
            /\ handler' = "GetTransactorDAOCoinLimitOrders"
            /\ request' = [NoRequest EXCEPT !.transactor = transactor, !.fault = fault]
            /\ Answered(GetTransactorDAOCoinLimitOrdersAnswer(request'))
            /\ UNCHANGED <<book, besidesOrders>>

\* the answer is sent; the server keeps nothing of the request
AnswerSent ==
    /\ handler # ""
    /\ handler' = ""
    /\ request' = NoRequest
    /\ reply' = NoReply
    /\ work' = NoWork
    /\ UNCHANGED <<book, besidesOrders>>

NextOrders ==
    \/ GetDAOCoinLimitOrders
    \/ GetTransactorDAOCoinLimitOrders
    \/ AnswerSent

SpecOrders == InitOrders /\ [][NextOrders]_vars

(***************************************************************************)
(* The referral handlers.  A handler runs on a record st of the store, the *)
(* keys it has written so far, the call that fails while it runs and the   *)
(* row of the uploaded file it is at; every helper returns the record it   *)
(* leaves.                                                                 *)
(***************************************************************************)
StartOf(fault) ==
    [GlobalState |-> GlobalState, puts |-> << >>, fault |-> fault, rowIdx |-> 0]

\* lib.Base58CheckDecode of the text of a public key
Base58CheckDecode(text) ==
    [err |-> IF text \in PublicKeys THEN "" ELSE "invalid format", val |-> text]

\* utxoView.GetProfileEntryForUsername: the public key of the profile, "" for none
GetProfileEntryForUsername(username) ==
    IF username = "referrername" THEN "referrer" ELSE ""

\* strconv.ParseUint(text, 10, 64) of the texts of the amount cells
ParseUint(text) ==
    CASE text = "0" -> [err |-> "", val |-> 0]
      [] text = "10" -> [err |-> "", val |-> 10]
      [] text = "500" -> [err |-> "", val |-> 500]
      [] text = "200000" -> [err |-> "", val |-> 200000]
      [] OTHER -> [err |-> "invalid syntax", val |-> 0]

\* strconv.ParseBool
ParseBool(text) ==
    CASE text \in {"1", "t", "T", "TRUE", "true", "True"} -> [err |-> "", val |-> TRUE]
      [] text \in {"0", "f", "F", "FALSE", "false", "False"} -> [err |-> "", val |-> FALSE]
      [] OTHER -> [err |-> "invalid syntax", val |-> FALSE]

\* uint64(tstampFloat) of strconv.ParseFloat of the texts of the time stamp cell
tstampFloat(text) ==
    CASE text = "3" -> [err |-> "", val |-> 3]
      [] OTHER -> [err |-> "invalid syntax", val |-> 0]

\* strings.TrimSpace of the texts of the cells
TrimSpace(text) == IF text = " 500 " THEN "500" ELSE text

\* takes every token that can be read, whoever signed it
ValidateJWTOfAnySigner(publicKey, JWT) ==
    IF JWT = "garbage" THEN [err |-> "token contains an invalid number of segments",
                             isValid |-> FALSE]
    ELSE [err |-> "", isValid |-> TRUE]

\* fes.ValidateJWT: a token is valid for the public key it was signed by; a
\* token is written as the public key that signed it
ValidateJWT(publicKey, JWT) ==
    IF JWT = "garbage" THEN [err |-> "token contains an invalid number of segments",
                             isValid |-> FALSE]
    ELSE [err |-> "", isValid |-> JWT # "" /\ JWT = publicKey]

\* the hash is written with its status of failure to the list of puts
Written(st, prefix, key, err) ==
    Append(st.puts, [rowIdx |-> st.rowIdx, prefix |-> prefix, key |-> key, err |-> err])

putReferralHashWithInfo(st, referralHashBase58, referralInfo) ==
    IF st.fault = "Put info"
    THEN [err |-> "Put",
          st |-> [st EXCEPT !.puts = Written(st, "ReferralHashToReferralInfo",
                                             <<referralHashBase58>>, "Put")]]
    ELSE [err |-> "",
          st |-> [st EXCEPT !.GlobalState.ReferralHashToReferralInfo =
                                Put(@, referralHashBase58, referralInfo),
                            !.puts = Written(st, "ReferralHashToReferralInfo",
                                             <<referralHashBase58>>, "")]]

\* reads the hash and nothing else of the entry
getInfoForReferralHashBase58Afresh(st, referralHashBase58) ==
    IF referralHashBase58 \notin DOMAIN st.GlobalState.ReferralHashToReferralInfo
    THEN [err |-> "got nil bytes for hash", val |-> NoReferralInfo]
    ELSE [err |-> "",
          val |-> [NoReferralInfo EXCEPT !.ReferralHashBase58 = referralHashBase58]]

getInfoForReferralHashBase58(st, referralHashBase58) ==
    IF st.fault = "Get" THEN [err |-> "Get", val |-> NoReferralInfo]
    ELSE IF referralHashBase58 \notin DOMAIN st.GlobalState.ReferralHashToReferralInfo
         THEN [err |-> "got nil bytes for hash", val |-> NoReferralInfo]
    ELSE [err |-> "", val |-> st.GlobalState.ReferralHashToReferralInfo[referralHashBase58]]

setReferralHashStatusForPKID(st, pkid, referralHashBase58, isActive) ==
    IF st.fault = "Put status"
    THEN [err |-> "Put",
          st |-> [st EXCEPT !.puts = Written(st, "PKIDReferralHashToIsActive",
                                             <<pkid, referralHashBase58>>, "Put")]]
    ELSE [err |-> "",
          st |-> [st EXCEPT !.GlobalState.PKIDReferralHashToIsActive =
                                Put(@, <<pkid, referralHashBase58>>, isActive),
                            !.puts = Written(st, "PKIDReferralHashToIsActive",
                                             <<pkid, referralHashBase58>>, "")]]

\* sixteen random bytes: the hash drawn is taken to be one no link has yet,
\* here the first of the hashes that is free
generateNewReferralHash(st) ==
    LET free == {i \in 1..Len(ReferralHashes) :
                    ReferralHashes[i] \notin DOMAIN st.GlobalState.ReferralHashToReferralInfo}
    IN  ReferralHashes[CHOOSE i \in free : \A j \in free : i <= j]

\* what a handler answers: the status code and the record it leaves
Answer(code, st) ==
    [code |-> code, st |-> st, ReferralHashBase58 |-> "", rowIdx |-> 0,
     LinksCreated |-> 0, LinksUpdated |-> 0]

AdminCreateReferralHashAnswer(st, requestData) ==
    LET Stored(referrerPKID, referralHashBase58, put) ==
            IF put.err # "" THEN Answer(400, put.st)
            ELSE LET Status(set) ==
                         IF set.err # "" THEN Answer(400, set.st)
                         ELSE [Answer(200, set.st) EXCEPT
                                   !.ReferralHashBase58 = referralHashBase58]
                 IN  Status(setReferralHashStatusForPKID(put.st, referrerPKID,
                                                         referralHashBase58, TRUE))
        Create(referrerPKID, referralHashBase58) ==
            Stored(referrerPKID, referralHashBase58,
                   putReferralHashWithInfo(st, referralHashBase58,
                       [NoReferralInfo EXCEPT
                            !.ReferrerAmountUSDCents = requestData.ReferrerAmountUSDCents,
                            !.RefereeAmountUSDCents = requestData.RefereeAmountUSDCents,
                            !.MaxReferrals = requestData.MaxReferrals,
                            !.RequiresJumio = requestData.RequiresJumio,
                            !.ReferralHashBase58 = referralHashBase58,
                            !.ReferrerPKID = referrerPKID,
                            !.DateCreatedTStampNanos = UnixNano]))
        ForKey(userPublicKeyBytes) ==
            IF st.fault = "GetAugmentedUniversalView" THEN Answer(400, st)
            ELSE Create(userPublicKeyBytes, generateNewReferralHash(st))
    IN  IF requestData.UserPublicKeyBase58Check = "" /\ requestData.Username = ""
        THEN Answer(400, st)
        ELSE IF \/ requestData.ReferrerAmountUSDCents > referralLimitUSD
                \/ requestData.RefereeAmountUSDCents > referralLimitUSD
        THEN Answer(400, st)
        ELSE IF requestData.UserPublicKeyBase58Check # ""
        THEN IF Base58CheckDecode(requestData.UserPublicKeyBase58Check).err # ""
             THEN Answer(400, st)
             ELSE ForKey(Base58CheckDecode(requestData.UserPublicKeyBase58Check).val)
        ELSE IF st.fault = "GetAugmentedUniversalView" THEN Answer(400, st)
        ELSE IF GetProfileEntryForUsername(requestData.Username) = "" THEN Answer(400, st)
        ELSE ForKey(GetProfileEntryForUsername(requestData.Username))

AdminUpdateReferralHashAnswer(st, requestData) ==
    LET Stored(referralInfo, updatedReferralInfo, put) ==
            IF put.err # "" THEN Answer(400, put.st)
            ELSE LET Status(set) ==
                         IF set.err # "" THEN Answer(400, set.st)
                         ELSE [Answer(200, set.st) EXCEPT
                                   !.ReferralHashBase58 = requestData.ReferralHashBase58]
                 IN  Status(setReferralHashStatusForPKID(put.st, referralInfo.ReferrerPKID,
                                requestData.ReferralHashBase58, requestData.IsActive))
        Update(referralInfo, updatedReferralInfo) ==
            Stored(referralInfo, updatedReferralInfo,
                   putReferralHashWithInfo(st, requestData.ReferralHashBase58,
                                           updatedReferralInfo))
        Got(got) ==
            IF got.err # "" THEN Answer(400, st)
            ELSE Update(got.val,
                        [got.val EXCEPT
                             !.ReferrerAmountUSDCents = requestData.ReferrerAmountUSDCents,
                             !.RefereeAmountUSDCents = requestData.RefereeAmountUSDCents,
                             !.MaxReferrals = requestData.MaxReferrals,
                             !.RequiresJumio = requestData.RequiresJumio])
    IN  IF requestData.ReferralHashBase58 = "" THEN Answer(400, st)
        ELSE Got(getInfoForReferralHashBase58(st, requestData.ReferralHashBase58))

\* the cell of a row at a column of the file, columns counted from 0
Cell(row, column) == row[column + 1]

updateOrCreateReferralInfoFromCSVRow(st, row) ==
    LET Failed(err, left) == [err |-> err, st |-> left]
        Status(referralInfo, put) ==
            IF put.err # "" THEN Failed("problem putting referral info", put.st)
            ELSE IF /\ len(Cell(row, CSVColumnIsActive)) > 0
                    /\ ParseBool(Cell(row, CSVColumnIsActive)).err # ""
            THEN Failed("error parsing is active", put.st)
            ELSE Failed("", setReferralHashStatusForPKID(put.st, referralInfo.ReferrerPKID,
                                referralInfo.ReferralHashBase58,
                                IF len(Cell(row, CSVColumnIsActive)) > 0
                                THEN ParseBool(Cell(row, CSVColumnIsActive)).val
                                ELSE TRUE).st)
        Stamped(referralInfo) ==
            IF /\ len(Cell(row, CSVColumnTstampNanos)) > 0
               /\ tstampFloat(Cell(row, CSVColumnTstampNanos)).err # ""
            THEN Failed("error parsing tstamp nanos", st)
            ELSE LET Filled(info) ==
                         Status(info, putReferralHashWithInfo(st, info.ReferralHashBase58, info))
                 IN  Filled([referralInfo EXCEPT !.DateCreatedTStampNanos =
                                 IF len(Cell(row, CSVColumnTstampNanos)) > 0
                                 THEN tstampFloat(Cell(row, CSVColumnTstampNanos)).val
                                 ELSE UnixNano])
        Parsed(referralInfo) ==
            IF Base58CheckDecode(Cell(row, CSVColumnPKID)).err # ""
            THEN Failed("Problem decoding pkid", st)
            ELSE IF ParseUint(Cell(row, CSVColumnReferrerAmount)).err # ""
            THEN Failed("error parsing referrer amount", st)
            ELSE IF ParseUint(Cell(row, CSVColumnRefereeAmount)).err # ""
            THEN Failed("error parsing referee amount", st)
            ELSE IF ParseUint(Cell(row, CSVColumnMaxReferrals)).err # ""
            THEN Failed("error parsing max referrals", st)
            ELSE IF ParseBool(Cell(row, CSVColumnRequiresJumio)).err # ""
            THEN Failed("error parsing requires jumio", st)
            ELSE Stamped([referralInfo EXCEPT
                     !.ReferrerPKID = Base58CheckDecode(Cell(row, CSVColumnPKID)).val,
                     !.ReferrerAmountUSDCents =
                         ParseUint(Cell(row, CSVColumnReferrerAmount)).val,
                     !.RefereeAmountUSDCents =
                         ParseUint(Cell(row, CSVColumnRefereeAmount)).val,
                     !.MaxReferrals = ParseUint(Cell(row, CSVColumnMaxReferrals)).val,
                     !.RequiresJumio = ParseBool(Cell(row, CSVColumnRequiresJumio)).val])
        Existing(got) ==
            IF got.err # "" THEN Failed("error getting referral info", st)
            ELSE Parsed(got.val)
    IN  IF len(Cell(row, CSVColumnReferralHash)) = 0
        THEN Parsed([NoReferralInfo EXCEPT
                         !.ReferralHashBase58 = generateNewReferralHash(st)])
        ELSE Existing(getInfoForReferralHashBase58(st, Cell(row, CSVColumnReferralHash)))

ReferralCSVHeaders ==
    <<"ReferralHashBase58", "Username", "ReferrerPKIDBase58Check",
      "ReferrerAmountUSDCents", "RefereeAmountUSDCents", "MaxReferrals", "RequiresJumio",
      "NumJumioAttempts", "NumJumioSuccesses", "TotalReferrerDeSoNanos",
      "TotalRefereeDeSoNanos", "DateCreatedTStampNanos", "IsActive">>

\* csvReader.ReadAll: every record must have as many fields as the first
ReadAll(file) ==
    [err |-> IF \A i \in 1..Len(file.rows) : Len(file.rows[i]) = Len(file.rows[1])
             THEN "" ELSE "wrong number of fields",
     val |-> file.rows]

AdminUploadReferralCSVAnswer(st, form) ==
    LET RECURSIVE Rows(_, _, _, _, _)
        \* the loop over the rows, at the row of index rowIdx
        Rows(rows, rowIdx, at, numLinksCreated, numLinksUpdated) ==
            LET Stopped(code, left) == [Answer(code, left) EXCEPT !.rowIdx = rowIdx]
                Upserted(row, done) ==
                    IF done.err # "" THEN Stopped(500, done.st)
                    ELSE IF len(Cell(row, CSVColumnReferralHash)) = 0
                    THEN Rows(rows, rowIdx + 1, done.st, numLinksCreated + 1,
                              numLinksUpdated)
                    ELSE Rows(rows, rowIdx + 1, done.st, numLinksCreated,
                              numLinksUpdated + 1)
                Stripped(row) ==
                    IF rowIdx = 0
                    THEN IF row # ReferralCSVHeaders THEN Stopped(400, at)
                         ELSE Rows(rows, rowIdx + 1, at, numLinksCreated, numLinksUpdated)
                    ELSE IF len(Cell(row, CSVColumnReferralHash)) \notin {8, 0}
                    THEN Stopped(400, at)
                    ELSE Upserted(row, updateOrCreateReferralInfoFromCSVRow(
                                           [at EXCEPT !.rowIdx = rowIdx], row))
            IN  IF rowIdx >= Len(rows)
                THEN [Answer(200, at) EXCEPT !.rowIdx = rowIdx,
                                             !.LinksCreated = numLinksCreated,
                                             !.LinksUpdated = numLinksUpdated]
                ELSE IF Len(rows[rowIdx + 1]) < 11 THEN Stopped(400, at)
                ELSE Stripped([ii \in 1..Len(rows[rowIdx + 1]) |->
                                   TrimSpace(rows[rowIdx + 1][ii])])
        Read(read) ==
            IF read.err # "" THEN Answer(400, st)
            ELSE Rows(read.val, 0, st, 0, 0)
    IN  IF Len(form.JWT) = 0 THEN Answer(400, st)
        ELSE IF Len(form.UserPublicKeyBase58Check) = 0 THEN Answer(400, st)
        ELSE IF ValidateJWT(form.UserPublicKeyBase58Check[1], form.JWT[1]).err # ""
        THEN Answer(400, st)
        ELSE IF ~ValidateJWT(form.UserPublicKeyBase58Check[1], form.JWT[1]).isValid
        THEN Answer(400, st)
        ELSE IF form.UserPublicKeyBase58Check[1] \notin SuperAdminPublicKeys
        THEN Answer(400, st)
        ELSE IF form.file.missing THEN Answer(400, st)
        ELSE IF form.file.ContentType # "text/csv" THEN Answer(400, st)
        ELSE Read(ReadAll(form.file))

(***************************************************************************)
(* The requests of the referral handlers.                                  *)
(***************************************************************************)
\* a hash of eight characters that no link has
UnknownHash == "hashZZZZ"

\* the amounts a request asks for: within the limit, and with the referee's
\* or the referrer's amount a cent above it
AmountsUSDCents == {<<500, 500>>, <<100000, 100001>>, <<100001, 500>>}

AdminCreateReferralHashRequests ==
    {[UserPublicKeyBase58Check |-> key, Username |-> name,
      ReferrerAmountUSDCents |-> amounts[1], RefereeAmountUSDCents |-> amounts[2],
      MaxReferrals |-> 10, RequiresJumio |-> TRUE] :
        key \in {"", "referrer", "other", "notakey"},
        name \in {"", "referrername", "ghost"},
        amounts \in AmountsUSDCents \ {<<100000, 100001>>}}

AdminUpdateReferralHashRequests ==
    {[ReferralHashBase58 |-> hash,
      ReferrerAmountUSDCents |-> amounts[1], RefereeAmountUSDCents |-> amounts[2],
      MaxReferrals |-> 10, RequiresJumio |-> TRUE, IsActive |-> isActive] :
        hash \in {"", ReferralHashes[1], UnknownHash},
        amounts \in AmountsUSDCents \ {<<100001, 500>>},
        isActive \in BOOLEAN}

\* a data row of the file: the cells the upload reads, the others as the
\* download writes them
Row(hash, pkid, referrerAmount, refereeAmount, tstampNanos, isActive) ==
    <<hash, "", pkid, referrerAmount, refereeAmount, "10", "true", "0", "0", "0", "0",
      tstampNanos, isActive>>

\* the data rows: a new link; an existing link with amounts above the limit;
\* an existing link given to another referrer
DataRows ==
    {Row("", "other", "500", " 500 ", "", ""),
     Row(ReferralHashes[1], "referrer", "200000", "500", "3", "false"),
     Row(ReferralHashes[1], "other", "500", "500", "3", "true")}

\* the files: none, of another content type, of records of different
\* lengths, of too few columns, without the header row, empty, of a row
\* with a hash too short, a public key, a time stamp, an amount or an
\* IsActive that is none, a hash that no link has, and the header row
\* followed by up to MaxRows data rows
Files ==
    {[missing |-> TRUE, ContentType |-> "", rows |-> << >>],
     [missing |-> FALSE, ContentType |-> "text/plain", rows |-> <<ReferralCSVHeaders>>],
     [missing |-> FALSE, ContentType |-> "text/csv",
      rows |-> <<ReferralCSVHeaders, <<"hashAAAA">> >>],
     [missing |-> FALSE, ContentType |-> "text/csv",
      rows |-> <<SubSeq(ReferralCSVHeaders, 1, 10)>>],
     [missing |-> FALSE, ContentType |-> "text/csv",
      rows |-> <<Row("", "referrer", "500", "500", "", "")>>],
     [missing |-> FALSE, ContentType |-> "text/csv", rows |-> << >>],
     [missing |-> FALSE, ContentType |-> "text/csv",
      rows |-> <<ReferralCSVHeaders, Row("short", "referrer", "500", "500", "", "")>>],
     [missing |-> FALSE, ContentType |-> "text/csv",
      rows |-> <<ReferralCSVHeaders, Row("", "notakey", "500", "500", "", "")>>],
     [missing |-> FALSE, ContentType |-> "text/csv",
      rows |-> <<ReferralCSVHeaders, Row("", "other", "500", "500", "x", "")>>],
     [missing |-> FALSE, ContentType |-> "text/csv",
      rows |-> <<ReferralCSVHeaders, Row("", "referrer", "abc", "500", "", "")>>],
     [missing |-> FALSE, ContentType |-> "text/csv",
      rows |-> <<ReferralCSVHeaders,
                 Row(ReferralHashes[1], "referrer", "500", "500", "", "maybe")>>],
     [missing |-> FALSE, ContentType |-> "text/csv",
      rows |-> <<ReferralCSVHeaders, Row(UnknownHash, "referrer", "500", "500", "", "")>>]}
    \cup UNION {{[missing |-> FALSE, ContentType |-> "text/csv",
                  rows |-> <<ReferralCSVHeaders>> \o data] :
                    data \in [1..n -> DataRows]} : n \in 0..MaxRows}

\* the forms: of the super-admin with every file, and of every sender and
\* token with a file whose rows would all be written
\* a file whose rows would all be written
GoodFile ==
    [missing |-> FALSE, ContentType |-> "text/csv",
     rows |-> <<ReferralCSVHeaders, Row("", "other", "500", "500", "", ""),
                Row(ReferralHashes[1], "other", "500", "500", "3", "true")>>]

Forms ==
    {[JWT |-> <<"admin">>, UserPublicKeyBase58Check |-> <<"admin">>, file |-> file] :
        file \in Files}
    \cup {[JWT |-> JWT, UserPublicKeyBase58Check |-> key, file |-> GoodFile] :
             JWT \in {<< >>, <<"admin">>, <<"other">>, <<"garbage">>},
             key \in {<< >>, <<"admin">>, <<"other">>}}

ReferralFaults == StoreFaults \cup {"GetAugmentedUniversalView"}

(***************************************************************************)
(* The state machine of the referral handlers: one request is served at a  *)
(* time, and the next one after its answer is sent; the store keeps what   *)
(* the handlers wrote.                                                     *)
(***************************************************************************)
InitReferral ==
    /\ fn = ""
    /\ buying = DAOCoin
    /\ selling = DAOCoin
    /\ operationType = ""
    /\ floatArg = FloatZero
    /\ scaledArg = Zero
    /\ textArg = << >>
    /\ ret = Ok(Zero)
    /\ chained = FALSE
    /\ parserRejectsZero = FALSE
    /\ given = Zero
    /\ heap = Startup(Zero)
    /\ pc = [t \in Threads |-> "idle"]
    /\ frame = [t \in Threads |-> IdleFrame]
    /\ book = << >>
    /\ handler = ""
    /\ request = NoRequest
    /\ reply = NoReply
    /\ work = NoWork
    /\ GlobalState \in GlobalStates
    /\ adminReply = NoAdminReply
    /\ puts = << >>
    /\ NoChecksumTool

\* what of an upload the reply is set against: who sent it, with which
\* token, and the number of data rows of its file
Sent(form) ==
    [UserPublicKeyBase58Check |-> IF Len(form.UserPublicKeyBase58Check) = 0 THEN ""
                                  ELSE form.UserPublicKeyBase58Check[1],
     JWT |-> IF Len(form.JWT) = 0 THEN "" ELSE form.JWT[1],
     rows |-> IF Len(form.file.rows) = 0 THEN 0 ELSE Len(form.file.rows) - 1]

NotSent == [UserPublicKeyBase58Check |-> "", JWT |-> "", rows |-> 0]

\* the handler has answered: the store and the reply it leaves
Answered(name, sent, answer) ==
    /\ adminReply.handler = ""
    /\ Cardinality(DOMAIN answer.st.GlobalState.ReferralHashToReferralInfo) <= MaxLinks
    /\ GlobalState' = answer.st.GlobalState
    /\ puts' = answer.st.puts
    /\ adminReply' = [handler |-> name, code |-> answer.code,
                      UserPublicKeyBase58Check |-> sent.UserPublicKeyBase58Check,
                      JWT |-> sent.JWT,
                      ReferralHashBase58 |-> answer.ReferralHashBase58,
                      rows |-> sent.rows, rowIdx |-> answer.rowIdx,
                      LinksCreated |-> answer.LinksCreated,
                      LinksUpdated |-> answer.LinksUpdated]
    /\ UNCHANGED besidesReferral

AdminCreateReferralHash ==
    \E requestData \in AdminCreateReferralHashRequests, fault \in ReferralFaults :
        Answered("AdminCreateReferralHash", NotSent,
                 AdminCreateReferralHashAnswer(StartOf(fault), requestData))

AdminUpdateReferralHash ==
    \E requestData \in AdminUpdateReferralHashRequests, fault \in ReferralFaults :
        Answered("AdminUpdateReferralHash", NotSent,
                 AdminUpdateReferralHashAnswer(StartOf(fault), requestData))

AdminUploadReferralCSV ==
    \E form \in Forms, fault \in StoreFaults :
        Answered("AdminUploadReferralCSV", Sent(form),
                 AdminUploadReferralCSVAnswer(StartOf(fault), form))

\* the answer is sent; the server keeps the store and nothing of the request
AdminAnswerSent ==
    /\ adminReply.handler # ""
    /\ adminReply' = NoAdminReply
    /\ puts' = << >>
    /\ UNCHANGED <<GlobalState, besidesReferral>>

NextReferral ==
    \/ AdminCreateReferralHash
    \/ AdminUpdateReferralHash
    \/ AdminUploadReferralCSV
    \/ AdminAnswerSent

SpecReferral == InitReferral /\ [][NextReferral]_vars

(***************************************************************************)
(* The checksum tool (scripts/tools): main starts one goroutine for each   *)
(* state prefix of the snapshot database; a goroutine reads the keys of    *)
(* its prefix chunk by chunk and adds every entry to the checksum of the   *)
(* snapshot; a weighted semaphore limits the goroutines that run.          *)
(***************************************************************************)
\* the weight of the semaphore
numProcesses == 1

\* the state prefixes of the database, in the order main sorts them
NumPrefixes == 2

\* the most keys the database holds under a prefix
MaxKeys == 3

\* the entries that fill a chunk of maxBytes
ChunkEntries == 2

\* a goroutine that was not started
NotStarted ==
    [at |-> "not started", lastPrefix |-> 0, removeFirst |-> FALSE, entries |-> << >>,
     fullDb |-> FALSE, entry |-> 0]

\* lib.DBIteratePrefixKeys: the keys of the prefix from startKey on, startKey
\* included (0 is the prefix itself, before its first key), until the chunk
\* is full
DBIteratePrefixKeys(prefix, startKey) ==
    LET from == MaxOf(startKey, 1)
        upto == IF from + ChunkEntries - 1 <= dbSnap[prefix]
                THEN from + ChunkEntries - 1 ELSE dbSnap[prefix]
    IN  [entries |-> [i \in 1..MaxOf(0, upto - from + 1) |-> from + i - 1],
         fullDb |-> upto - from + 1 >= ChunkEntries]

\* sem.Acquire(ctx, n) without waiting for the weight to be free
AcquireAtOnce(n) == sem' = sem + n

\* sem.Acquire(ctx, n): waits until n of the weight is free and takes it
Acquire(n) ==
    /\ sem + n <= numProcesses
    /\ sem' = sem + n

\* sem.Release(n)
Release(n) == sem' = sem - n

\* the goroutine of prefix p was started and has not returned
Running(p) == routines[p].at \in {"iterate", "add"}

InitChecksum ==
    /\ fn = ""
    /\ buying = DAOCoin
    /\ selling = DAOCoin
    /\ operationType = ""
    /\ floatArg = FloatZero
    /\ scaledArg = Zero
    /\ textArg = << >>
    /\ ret = Ok(Zero)
    /\ chained = FALSE
    /\ parserRejectsZero = FALSE
    /\ given = Zero
    /\ heap = Startup(Zero)
    /\ pc = [t \in Threads |-> "idle"]
    /\ frame = [t \in Threads |-> IdleFrame]
    /\ book = << >>
    /\ handler = ""
    /\ request = NoRequest
    /\ reply = NoReply
    /\ work = NoWork
    /\ NoReferrals
    /\ dbSnap \in [1..NumPrefixes -> 0..MaxKeys]
    /\ mainAt = "acquire"
    /\ nextPrefix = 1
    /\ sem = 0
    /\ routines = [p \in 1..NumPrefixes |-> NotStarted]
    /\ Checksum = << >>
    /\ checksumBytes = << >>

\* main, in the loop over the prefixes: sem.Acquire(ctx, 1)
MainAcquire ==
    /\ mainAt = "acquire"
    /\ Acquire(1)
    /\ mainAt' = "go"
    /\ UNCHANGED <<dbSnap, nextPrefix, routines, Checksum, checksumBytes, besidesChecksum>>

\* main: the go statement; the loop goes on to the next prefix or ends
MainGo ==
    /\ mainAt = "go"
    /\ routines' = [routines EXCEPT ![nextPrefix].at = "iterate"]
    /\ nextPrefix' = nextPrefix + 1
    /\ mainAt' = IF nextPrefix < NumPrefixes THEN "acquire" ELSE "acquire all"
    /\ UNCHANGED <<dbSnap, sem, Checksum, checksumBytes, besidesChecksum>>

\* a goroutine reads the next chunk and drops the entry it has added already
Iterate(p) ==
    LET Got(got) ==
            routines' = [routines EXCEPT
                ![p].at = "add",
                ![p].fullDb = got.fullDb,
                ![p].entries = IF routines[p].removeFirst THEN Tail(got.entries)
                               ELSE got.entries,
                ![p].entry = 1]
    IN  /\ mainAt # "panic"
        /\ routines[p].at = "iterate"
        /\ Got(DBIteratePrefixKeys(p, routines[p].lastPrefix))
        /\ UNCHANGED <<dbSnap, mainAt, nextPrefix, sem, Checksum, checksumBytes,
                       besidesChecksum>>

\* lib.DBIteratePrefixKeys returns an error: the goroutine panics and the
\* program ends
IteratePanics(p) ==
    /\ mainAt # "panic"
    /\ routines[p].at = "iterate"
    /\ mainAt' = "panic"
    /\ UNCHANGED <<dbSnap, nextPrefix, sem, routines, Checksum, checksumBytes,
                   besidesChecksum>>

\* a goroutine adds the next entry of the chunk: snap.AddChecksumBytes
AddChecksumBytes(p) ==
    /\ mainAt # "panic"
    /\ routines[p].at = "add"
    /\ routines[p].entry <= Len(routines[p].entries)
    /\ Checksum' = Append(Checksum, <<p, routines[p].entries[routines[p].entry]>>)
    /\ routines' = [routines EXCEPT ![p].entry = @ + 1]
    /\ UNCHANGED <<dbSnap, mainAt, nextPrefix, sem, checksumBytes, besidesChecksum>>

\* a goroutine has added the chunk: it goes on behind the last key of the
\* chunk, or returns after a chunk that was not full and releases the
\* semaphore; a full chunk of nothing makes it panic
Iterated(p) ==
    /\ mainAt # "panic"
    /\ routines[p].at = "add"
    /\ routines[p].entry > Len(routines[p].entries)
    /\ IF Len(routines[p].entries) = 0 /\ routines[p].fullDb
       THEN /\ mainAt' = "panic"
            /\ UNCHANGED <<sem, routines>>
       ELSE /\ routines' = [routines EXCEPT
                ![p].lastPrefix = IF Len(routines[p].entries) # 0
                                  THEN routines[p].entries[Len(routines[p].entries)]
                                  ELSE @,
                ![p].removeFirst = (Len(routines[p].entries) # 0) \/ @,
                ![p].at = IF routines[p].fullDb THEN "iterate" ELSE "returned"]
            /\ IF routines[p].fullDb THEN UNCHANGED sem ELSE Release(1)
            /\ UNCHANGED mainAt
    /\ UNCHANGED <<dbSnap, nextPrefix, Checksum, checksumBytes, besidesChecksum>>

\* main, behind the loop: sem.Acquire(ctx, numProcesses)
MainAcquireAll ==
    /\ mainAt = "acquire all"
    /\ Acquire(numProcesses)
    /\ mainAt' = "read"
    /\ UNCHANGED <<dbSnap, nextPrefix, routines, Checksum, checksumBytes, besidesChecksum>>

\* main reads the checksum: snap.Checksum.ToBytes
MainReads ==
    /\ mainAt = "read"
    /\ checksumBytes' = Checksum
    /\ mainAt' = "done"
    /\ UNCHANGED <<dbSnap, nextPrefix, sem, routines, Checksum, besidesChecksum>>

NextChecksum ==
    \/ MainAcquire
    \/ MainGo
    \/ \E p \in 1..NumPrefixes :
           Iterate(p) \/ IteratePanics(p) \/ AddChecksumBytes(p) \/ Iterated(p)
    \/ MainAcquireAll
    \/ MainReads

SpecChecksum == InitChecksum /\ [][NextChecksum]_vars

(***************************************************************************)
(* Decimal values in the properties                                        *)
(***************************************************************************)
\* the decimal n * 10^-k
DecimalValue(n, k) ==
    LET all == Zeros(MaxOf(0, k - Len(n))) \o n
    IN  [whole |-> Strip(SubSeq(all, 1, Len(all) - k)),
         frac  |-> StripTrailing(SubSeq(all, Len(all) - k + 1, Len(all)))]

\* floor(n / 10^k): n without its k low digits
DropLow(n, k) == IF Len(n) <= k THEN Zero ELSE SubSeq(n, 1, Len(n) - k)

\* n * 10^k
ShiftUp(n, k) == IF n = Zero THEN Zero ELSE n \o Zeros(k)

\* floor(p * 10^k) of a decimal p
FloorScaled(p, k) ==
    Strip(p.whole \o [i \in 1..k |-> IF i <= Len(p.frac) THEN p.frac[i] ELSE 0])

\* the decimal a float64 argument was written as
DecimalOf(f) == [whole |-> f.whole, frac |-> f.frac]

\* the decimal that the text formatFloatAsString renders of f denotes
Rendered(f) == ParseFloat(formatFloatAsString(f))

\* f is held exactly by binary64 and has no digit after its 15th, counted
\* from the first digit of its integer part (from the decimal point when
\* it is below 1)
WithinPrecision(f) ==
    /\ f.int = f.whole
    /\ \A i \in (supportedPrecisionDigits + 1)..Len(f.whole \o f.frac) :
           (f.whole \o f.frac)[i] = 0

One == Numeral(<<1>>, 0)

RateCalls == {"CalculateScaledExchangeRate"}

(***************************************************************************)
(* C1                                                                      *)
(***************************************************************************)
\* C1: a price p whose rendering parses to the raw scaled rate
\* R = floor(p * 10^38) is converted by CalculateScaledExchangeRate to R * K
\* when the buying coin is $DESO, to floor(R / K) when the selling coin is
\* $DESO and to R when neither is, with K = 10^18 / 10^9 = 10^9; the price
\* 1.0 gives 10^38 / K for (DAO coin, $DESO) and 10^38 * K for ($DESO, DAO
\* coin).
C1_ScaledRateByPair ==
    fn \in RateCalls /\ ~floatArg.neg =>
        LET R == FloorScaled(Rendered(floatArg), 38)
        IN  /\ getDESOToDAOCoinBaseUnitsScalingFactor = Pow10(9)
            /\ WithinPrecision(floatArg) => R = FloorScaled(DecimalOf(floatArg), 38)
            /\ ret.err = "" =>
                   ret.val = IF buying = DESOCoin THEN ShiftUp(R, 9)
                             ELSE IF selling = DESOCoin THEN DropLow(R, 9)
                             ELSE R
            /\ floatArg = One =>
                   ret = Ok(IF buying = DESOCoin THEN Pow10(47)
                            ELSE IF selling = DESOCoin THEN Pow10(29)
                            ELSE Pow10(38))

C1_Witness ==
    /\ fn \in RateCalls
    /\ buying = DESOCoin
    /\ floatArg = One
    /\ ret = Ok(Pow10(47))

(***************************************************************************)
(* C2                                                                      *)
(***************************************************************************)
\* the number of significant digits of the decimal f was written as
SignificantDigits(f) == Len(StripTrailing(Strip(f.whole \o f.frac)))

\* a price of at most 15 significant digits in [10^-38, 10^38)
ValidPrice(f) ==
    /\ SignificantDigits(f) <= supportedPrecisionDigits
    /\ FloorScaled(DecimalOf(f), 38) # Zero
    /\ Len(f.whole) <= 38

RateBack == fn = "CalculateExchangeRateAsFloat" /\ chained

\* C2 as stated: for every valid price p (at most 15 significant digits,
\* inside the accepted range) and each of the three kinds of pair, the price
\* converted to a scaled rate and back equals p.
C2_RoundTripOfEveryValidPrice ==
    RateBack /\ ValidPrice(floatArg) =>
        ret.err = "" /\ ret.val = DecimalOf(floatArg)

\* C2, amended: for each of the three kinds of pair, a price that
\* CalculateScaledExchangeRate accepts comes back from
\* CalculateExchangeRateAsFloat as the value of its rendering by
\* formatFloatAsString; that value is the price itself when binary64 holds
\* the price exactly and the price has no digit after the 15th, counted from
\* the first digit of its integer part (from the decimal point when it is
\* below 1).
C2_RoundTripOfRenderedPrice ==
    RateBack =>
        /\ ret.err = ""
        /\ ret.val = Rendered(floatArg)
        /\ WithinPrecision(floatArg) => ret.val = DecimalOf(floatArg)

C2_Witness ==
    /\ RateBack
    /\ buying = DESOCoin
    /\ floatArg = Numeral(<<1, 2>>, -3)
    /\ ret.val = DecimalOf(floatArg)

(***************************************************************************)
(* C3                                                                      *)
(***************************************************************************)
RateRead == fn = "CalculateExchangeRateAsFloat" /\ ~chained

\* C3 as stated: a scaled rate r reads as the decimal value of
\* (r / K) / 10^38 when the buying coin is $DESO, of (r * K) / 10^38 when
\* the selling coin is $DESO and of r / 10^38 otherwise, so the same r reads
\* 10^9 times smaller for ($DESO, DAO coin) than for two DAO coins.
C3_ExactInverseCorrection ==
    RateRead =>
        ret.val = IF buying = DESOCoin THEN DecimalValue(scaledArg, 47)
                  ELSE IF selling = DESOCoin THEN DecimalValue(ShiftUp(scaledArg, 9), 38)
                  ELSE DecimalValue(scaledArg, 38)

\* C3, amended: a scaled rate r reads as the decimal value of
\* floor(r / K) / 10^38 when the buying coin is $DESO, of (r * K) / 10^38
\* when the selling coin is $DESO and of r / 10^38 otherwise; the same r
\* reads 10^9 times larger for (DAO coin, $DESO) than for two DAO coins, and
\* 10^9 times smaller for ($DESO, DAO coin) when r is a multiple of K.
C3_InverseCorrection ==
    RateRead =>
        /\ ret.err = ""
        /\ ret.val = IF buying = DESOCoin THEN DecimalValue(DropLow(scaledArg, 9), 38)
                     ELSE IF selling = DESOCoin THEN DecimalValue(ShiftUp(scaledArg, 9), 38)
                     ELSE DecimalValue(scaledArg, 38)
        /\ buying = DESOCoin /\ ShiftUp(DropLow(scaledArg, 9), 9) = scaledArg =>
               ret.val = DecimalValue(scaledArg, 47)

C3_Witness ==
    /\ RateRead
    /\ selling = DESOCoin
    /\ scaledArg = OneE38
    /\ ret.val = DecimalValue(Pow10(9), 0)

(***************************************************************************)
(* C4                                                                      *)
(***************************************************************************)
QuantityCalls == {"CalculateQuantityToFillAsBaseUnits", "CalculateQuantityToFillAsFloat"}

\* the combinations in which the quantity is in $DESO
QuantityInDESO ==
    {<<DESOCoin, DAOCoin, DAOCoinLimitOrderOperationTypeStringBID>>,
     <<DAOCoin, DESOCoin, DAOCoinLimitOrderOperationTypeStringASK>>}

\* C4: isCoinToFillDESO is the decision table: the quantity is in $DESO
\* exactly when the buying coin is $DESO and the operation is BID, or the
\* selling coin is $DESO and the operation is ASK; in every other
\* combination, and for two DAO coins under BID and under ASK, it is in the
\* DAO coin.  The quantity 1 is 10^9 nanos in the first case and 10^18 base
\* units in the second.
C4_QuantitySide ==
    fn \in QuantityCalls =>
        /\ isCoinToFillDESO(buying, selling, operationType)
               <=> <<buying, selling, operationType>> \in QuantityInDESO
        /\ buying # DESOCoin /\ selling # DESOCoin =>
               ~isCoinToFillDESO(buying, selling, operationType)
        /\ fn = "CalculateQuantityToFillAsBaseUnits" /\ floatArg = One =>
               ret = Ok(IF <<buying, selling, operationType>> \in QuantityInDESO
                        THEN Pow10(9) ELSE Pow10(18))

C4_Witness ==
    /\ fn = "CalculateQuantityToFillAsBaseUnits"
    /\ <<buying, selling, operationType>>
           = <<DAOCoin, DESOCoin, DAOCoinLimitOrderOperationTypeStringASK>>
    /\ floatArg = One
    /\ ret = Ok(Pow10(9))

(***************************************************************************)
(* C5                                                                      *)
(***************************************************************************)
QuantityBack == fn = "CalculateQuantityToFillAsFloat" /\ chained

\* the decimal digits of the scaling factor of the quantity: 9 for $DESO
\* nanos, 18 for DAO coin base units
QuantityDigits ==
    IF <<buying, selling, operationType>> \in QuantityInDESO THEN 9 ELSE 18

\* C5 as stated: for every pair and operation type, a quantity q (of at
\* most 15 significant digits) converted to base units and back equals q.
C5_RoundTripOfEveryQuantity ==
    QuantityBack /\ SignificantDigits(floatArg) <= supportedPrecisionDigits =>
        ret.err = "" /\ ret.val = DecimalOf(floatArg)

\* C5, amended: CalculateQuantityToFillAsBaseUnits returns
\* floor(r * 10^9) when isCoinToFillDESO holds and floor(r * 10^18)
\* otherwise, r being the value of the rendering of q by formatFloatAsString,
\* and CalculateQuantityToFillAsFloat divides by the factor chosen by the
\* same rule; converting back gives floor(r * factor) / factor, which is q
\* when binary64 holds q exactly and q has no digit after the 15th (counted
\* from the first digit of its integer part, or from the decimal point when
\* it is below 1) and no more fractional digits than the factor has zeros.
\* The quantity 1 maps to 10^9 or 10^18 base units; 10^18 base units map
\* back to 10^9 or 1.
C5_QuantityByFactor ==
    fn \in QuantityCalls =>
        LET scaled == FloorScaled(Rendered(floatArg), QuantityDigits)
        IN  /\ fn = "CalculateQuantityToFillAsBaseUnits" =>
                   /\ ret.err = "" => ret.val = scaled
                   /\ floatArg = One => ret = Ok(Pow10(QuantityDigits))
            /\ fn = "CalculateQuantityToFillAsFloat" =>
                   /\ ret.err = ""
                   /\ ret.val = DecimalValue(scaledArg, QuantityDigits)
            /\ QuantityBack =>
                   /\ ret.val = DecimalValue(scaled, QuantityDigits)
                   /\ WithinPrecision(floatArg) /\ Len(floatArg.frac) <= QuantityDigits =>
                          ret.val = DecimalOf(floatArg)

C5_Witness ==
    /\ QuantityBack
    /\ QuantityDigits = 9
    /\ floatArg = Numeral(<<1, 2>>, -3)
    /\ scaledArg = <<1, 2>> \o Zeros(6)
    /\ ret.val = DecimalOf(floatArg)

C7_ZeroBaseUnitsRejected ==
    fn = "CalculateQuantityToFillAsFloat" /\ scaledArg = Zero =>
        ret.err # ""

(***************************************************************************)
(* C8                                                                      *)
(***************************************************************************)
\* C8: every scaled rate that CalculateScaledExchangeRate returns without
\* error is greater than zero: a price whose raw scaled value is zero, or
\* whose quotient by K (selling coin $DESO) is zero, yields an error.
C8_ScaledRatePositive ==
    fn \in RateCalls /\ ~floatArg.neg =>
        LET R == FloorScaled(Rendered(floatArg), 38)
        IN  /\ ret.err = "" => ret.val # Zero
            /\ R = Zero => ret.err # ""
            /\ selling = DESOCoin /\ DropLow(R, 9) = Zero => ret.err # ""

C8_Witness ==
    /\ fn \in RateCalls
    /\ ~parserRejectsZero
    /\ floatArg = Numeral(<<1>>, -16)
    /\ ret.err # ""

(***************************************************************************)
(* C9                                                                      *)
(***************************************************************************)
\* C9: when the buying coin is $DESO and R * K does not fit in 256 bits,
\* CalculateScaledExchangeRate returns an error; it never returns a product
\* reduced modulo 2^256: every result without error is the exact R * K.
C9_NoReducedProduct ==
    fn \in RateCalls /\ buying = DESOCoin /\ ~floatArg.neg =>
        LET product == ShiftUp(FloorScaled(Rendered(floatArg), 38), 9)
        IN  /\ ~Less(product, TwoPow256) => ret.err # ""
            /\ ret.err = "" => ret.val = product /\ Less(ret.val, TwoPow256)

C9_Witness ==
    /\ fn \in RateCalls
    /\ buying = DESOCoin
    /\ floatArg.whole = <<2>> \o Zeros(30)
    /\ ret.err # ""

(***************************************************************************)
(* C10                                                                     *)
(***************************************************************************)
TwoDAOCoins == buying # DESOCoin /\ selling # DESOCoin

\* C10 as stated: for two DAO coins a price is accepted exactly when it lies
\* in [10^-38, 10^38).
C10_AcceptedExactlyInRange ==
    fn \in RateCalls /\ TwoDAOCoins /\ ~floatArg.neg =>
        (ret.err = "" <=> /\ FloorScaled(DecimalOf(floatArg), 38) # Zero
                          /\ Len(floatArg.whole) <= 38)

\* C10, amended: for two DAO coins a price is accepted exactly when the
\* value r of its rendering by formatFloatAsString has
\* 1 <= floor(r * 10^38) < 2^256, that is 10^-38 <= r < 2^256 / 10^38
\* (about 1.158 * 10^39).  The rendering has at most 15 digits after the
\* decimal point, so 10^-16 and everything smaller fails while 10^-15 is
\* accepted; 10^38 is accepted (as is the text 1 with 38 zeros by the
\* parser) and 10^40 fails.
C10_AcceptedRenderedRange ==
    /\ fn \in RateCalls /\ TwoDAOCoins /\ ~floatArg.neg =>
           LET R == FloorScaled(Rendered(floatArg), 38)
           IN  /\ ret.err = "" <=> R # Zero /\ Less(R, TwoPow256)
               /\ floatArg = Numeral(<<1>>, -16) => ret.err # ""
               /\ floatArg = Numeral(<<1>>, -15) => ret = Ok(Pow10(23))
               /\ floatArg.whole = Pow10(38) =>
                      ret = Ok([i \in 1..15 |-> 9] \o Zeros(61))
               /\ floatArg.whole = Pow10(40) => ret.err # ""
    /\ fn = "ScaleFloatFormatStringToUint256" /\ scaledArg = OneE38 =>
           /\ textArg = <<"1">> \o RepeatZero(38) => ret = Ok(Pow10(76))
           /\ textArg = <<"1">> \o RepeatZero(40) => ret.err # ""
           /\ textArg = <<"0", ".">> \o RepeatZero(37) \o <<"1">> => ret = Ok(<<1>>)

C10_Witness ==
    /\ fn \in RateCalls
    /\ TwoDAOCoins
    /\ floatArg.whole = Pow10(39)
    /\ ret.err = ""

(***************************************************************************)
(* C11                                                                     *)
(***************************************************************************)
\* the number of decimal digits a power-of-ten factor scales by
FactorDigits(F) == Len(F) - 1

ParserCalls == {"ScaleFloatFormatStringToUint256"}

\* C11: the parser returns floor(value(text) * F): every result without
\* error is the value of the text scaled by F with the digits below 1/F cut
\* off, never rounded up; 1.234 * 10^-38 and 1.9 * 10^-38 give 1 at
\* F = 10^38, 1.9 * 10^-9 gives 1 at F = 10^9.
C11_ParserFloors ==
    fn \in ParserCalls =>
        /\ ret.err = "" =>
               ret.val = FloorScaled(ParseFloat(textArg), FactorDigits(scaledArg))
        /\ /\ scaledArg = OneE38
           /\ textArg \in {<<"0", ".">> \o RepeatZero(37) \o <<"1", "2", "3", "4">>,
                           <<"0", ".">> \o RepeatZero(37) \o <<"1", "9">>}
           => ret = Ok(<<1>>)
        /\ /\ scaledArg = NanosPerUnit
           /\ textArg = <<"0", ".", "0", "0", "0", "0", "0", "0", "0", "0", "1", "9">>
           => ret = Ok(<<1>>)

C11_Witness ==
    /\ fn \in ParserCalls
    /\ scaledArg = OneE38
    /\ textArg = <<"0", ".">> \o RepeatZero(37) \o <<"1", "2", "3", "4">>
    /\ ret = Ok(<<1>>)

(***************************************************************************)
(* C12                                                                     *)
(***************************************************************************)
TextCalls == {"ScaleFloatFormatStringToUint256",
              "CalculateScaledExchangeRateFromPriceString"}

\* the text is empty, a bare ".", or has a character that is no decimal
\* digit and not the one "."
Malformed(text) ==
    \/ text = << >>
    \/ text = <<".">>
    \/ \E i \in 1..Len(text) : ~IsDigitChar(text[i]) /\ text[i] # "."
    \/ \E i, j \in 1..Len(text) : i # j /\ text[i] = "." /\ text[j] = "."

\* C12: parsing a human value fails with an error, for every pair and both
\* operation types, when the text is empty, a bare ".", or contains a
\* character other than decimal digits and one "." ("a", "2.a", "a.2",
\* "a.b", ".a"); a text without integer part such as ".005" is accepted and
\* means 0.005.
C12_MalformedTextRejected ==
    fn \in TextCalls =>
        /\ Malformed(textArg) => ret.err # ""
        /\ textArg \in {<< >>, <<".">>, <<"a">>, <<"2", ".", "a">>, <<"a", ".", "2">>,
                        <<"a", ".", "b">>, <<".", "a">>} => ret.err # ""
        /\ textArg = <<".", "0", "0", "5">> =>
               /\ ret.err = ""
               /\ fn \in ParserCalls =>
                      ret = ScaleFloatFormatStringToUint256(<<"0", ".", "0", "0", "5">>,
                                                            scaledArg)
                        /\ ret.val = <<5>> \o Zeros(FactorDigits(scaledArg) - 3)
               /\ fn = "CalculateScaledExchangeRateFromPriceString" =>
                      ret = CalculateScaledExchangeRateFromPriceString(
                                buying, selling, <<"0", ".", "0", "0", "5">>, operationType)
                        /\ (TwoDAOCoins
                              /\ operationType = DAOCoinLimitOrderOperationTypeStringBID
                              => ret.val = <<5>> \o Zeros(35))

C12_Witness ==
    /\ fn = "CalculateScaledExchangeRateFromPriceString"
    /\ buying = DESOCoin
    /\ operationType = DAOCoinLimitOrderOperationTypeStringASK
    /\ textArg = <<"2", ".", "a">>
    /\ ret.err # ""

(***************************************************************************)
(* C13                                                                     *)
(***************************************************************************)
TextBack == fn = "calculateQuantityToFillAsFloatWithScalingFactor" /\ chained

\* the text has an integer part without leading zeros ("0" when it is
\* zero), a "." and exactly k fractional digits
Normalized(text, k) ==
    /\ \A i \in 1..Len(text) : IsDigitChar(text[i]) \/ text[i] = "."
    /\ DotAt(text) > 1
    /\ Len(text) - DotAt(text) = k
    /\ SubSeq(text, 1, DotAt(text) - 1)
           = FormatInt(Strip(DigitsOf(SubSeq(text, 1, DotAt(text) - 1))))

\* a decimal of at most 15 significant digits in [10^-38, 10^38)
ValidDecimal(d) ==
    /\ SignificantDigits(d) <= supportedPrecisionDigits
    /\ FloorScaled(d, 38) # Zero
    /\ Len(d.whole) <= 38

\* C13 as stated: for every valid decimal text s of at most 15 significant
\* digits, in [10^-38, 10^38) and normalized to the resolution of F, the
\* text formatted from the parsed value equals s character for character.
C13_TextRoundTrip ==
    /\ TextBack
    /\ Normalized(textArg, FactorDigits(scaledArg))
    /\ ValidDecimal(ParseFloat(textArg))
    => ret.str = textArg

\* the text has the form the formatting emits at k fractional digits: an
\* integer part without leading zeros and either k fractional digits that
\* are not all zero or k + 1 fractional zeros
EmittedForm(text, k) ==
    \/ Normalized(text, k) /\ ParseFloat(text).frac # << >>
    \/ Normalized(text, k + 1) /\ ParseFloat(text).frac = << >>

\* C13, amended: the text formatted from the parsed value of a text s
\* denotes the value of s cut off below 1/F, and it equals s character for
\* character exactly when s has the form the formatting emits: an integer
\* part without leading zeros ("0" when it is zero) and either exactly as
\* many fractional digits as F has zeros, not all of them zero, or one
\* fractional zero more than F has zeros.  A whole number written with
\* exactly as many fractional zeros as F has zeros comes back with one zero
\* more.
C13_TextRoundTripUpToZero ==
    TextBack =>
        LET k == FactorDigits(scaledArg)
        IN  /\ ret.err = ""
            /\ ret.val = DecimalValue(FloorScaled(ParseFloat(textArg), k), k)
            /\ ret.str = textArg <=> EmittedForm(textArg, k)
            /\ Normalized(textArg, k) /\ ParseFloat(textArg).frac = << >> =>
                   ret.str = textArg \o <<"0">>

C13_Witness ==
    /\ TextBack
    /\ scaledArg = NanosPerUnit
    /\ textArg = <<"2", "0", ".", "5">> \o RepeatZero(8)
    /\ ret.str = textArg

(***************************************************************************)
(* C14                                                                     *)
(***************************************************************************)
FormatCalls == {"CalculateExchangeRateAsFloat", "CalculateQuantityToFillAsFloat",
                "calculateQuantityToFillAsFloatWithScalingFactor"}

\* the number of zeros of the factor the call formats with
FormatDigits ==
    IF fn = "CalculateExchangeRateAsFloat" THEN 38
    ELSE IF fn = "CalculateQuantityToFillAsFloat" THEN QuantityDigits
    ELSE FactorDigits(scaledArg)

\* the scaled value the call formats: the rate after its $DESO correction,
\* the base units, the value the parser returned
FormatValue ==
    IF fn = "CalculateExchangeRateAsFloat"
    THEN (IF buying = DESOCoin THEN DropLow(scaledArg, 9)
          ELSE IF selling = DESOCoin THEN ShiftUp(scaledArg, 9)
          ELSE scaledArg)
    ELSE IF fn = "CalculateQuantityToFillAsFloat" THEN scaledArg
    ELSE FloorScaled(ParseFloat(textArg), FactorDigits(scaledArg))

\* s mod 10^k: the k low digits of s
LowDigits(n, k) == Strip(SubSeq(n, MaxOf(1, Len(n) - k + 1), Len(n)))

\* the fraction of a text: what follows its "."
FractionText(text) == SubSeq(text, DotAt(text) + 1, Len(text))

\* C14: for every scaled value s and factor F (10^9, 10^18, 10^38) the
\* emitted text is whole "." frac with whole = s / F and frac = s % F, frac
\* being left-padded with zeros so that the text denotes exactly s / F; the
\* number of padding zeros is the number of zeros of F less the number of
\* digits of frac (none for frac = 0) and is never negative.
C14_FormatPadsFraction ==
    fn \in FormatCalls =>
        LET whole == FormatInt(DropLow(FormatValue, FormatDigits))
            frac  == FormatInt(LowDigits(FormatValue, FormatDigits))
            pad   == FormatDigits - Len(LowDigits(FormatValue, FormatDigits))
        IN  /\ ret.err = ""
            /\ pad >= 0
            /\ ret.str = whole \o <<".">> \o RepeatZero(pad) \o frac
            /\ ParseFloat(ret.str) = DecimalValue(FormatValue, FormatDigits)
            /\ ret.val = DecimalValue(FormatValue, FormatDigits)

C14_Witness ==
    /\ RateRead
    /\ TwoDAOCoins
    /\ scaledArg = <<1, 0, 0, 0, 0, 0, 0, 0, 0, 0, 1>> \o Zeros(30)
    /\ ret.str = <<"1", "0", "0", ".">> \o RepeatZero(7) \o <<"1">> \o RepeatZero(30)

(***************************************************************************)
(* C15                                                                     *)
(***************************************************************************)
FloatCalls == {"CalculateScaledExchangeRate", "CalculateQuantityToFillAsBaseUnits"}

\* the number of characters after the "." of a text, 0 when it has none
FractionLength(text) ==
    IF DotAt(text) > Len(text) THEN 0 ELSE Len(text) - DotAt(text)

\* C15: formatFloatAsString of a non-negative value whose integer part has
\* n decimal digits: for n <= 15 the text has exactly 15 - n digits after
\* the decimal point (15 when the integer part is 0); for n > 15 it is the
\* integer part with every digit after the 15th replaced by 0, followed by
\* ".0": 1234567890123456789 gives "1234567890123450000.0" and
\* 1000000000000001 gives "1000000000000000.0".
C15_DigitsByIntegerPart ==
    fn \in FloatCalls /\ ~floatArg.neg =>
        LET n == Len(floatArg.int)
        IN  /\ n <= 15 =>
                   /\ FractionLength(formatFloatAsString(floatArg)) = 15 - n
                   /\ \A i \in 1..Len(formatFloatAsString(floatArg)) :
                          \/ IsDigitChar(formatFloatAsString(floatArg)[i])
                          \/ i = DotAt(formatFloatAsString(floatArg))
            /\ n > 15 =>
                   formatFloatAsString(floatArg)
                     = FormatInt(SubSeq(floatArg.int, 1, 15) \o Zeros(n - 15))
                         \o <<".", "0">>
            /\ floatArg.int = <<1,2,3,4,5,6,7,8,9,0,1,2,3,4,5,6,7,6,8>> =>
                   formatFloatAsString(floatArg)
                     = <<"1","2","3","4","5","6","7","8","9","0","1","2","3","4","5",
                         "0","0","0","0",".","0">>
            /\ floatArg.int = <<1,0,0,0,0,0,0,0,0,0,0,0,0,0,0,1>> =>
                   formatFloatAsString(floatArg) = <<"1">> \o RepeatZero(15) \o <<".", "0">>

C15_Witness ==
    /\ fn = "CalculateScaledExchangeRate"
    /\ TwoDAOCoins
    /\ floatArg.int = <<1,0,0,0,0,0,0,0,0,0,0,0,0,0,0,1>>
    /\ formatFloatAsString(floatArg) = <<"1">> \o RepeatZero(15) \o <<".", "0">>
    /\ ret = Ok(Pow10(53))

(***************************************************************************)
(* C16                                                                     *)
(***************************************************************************)
\* the value of a float64 argument: the integer part of the binary64 value
\* and the fraction it was written with
ValueOf(f) == [whole |-> f.int, frac |-> f.frac]

\* a <= b for two decimals
LeqDecimal(a, b) ==
    \/ Less(a.whole, b.whole)
    \/ /\ a.whole = b.whole
       /\ LET width == MaxOf(Len(a.frac), Len(b.frac))
          IN  Leq(Strip(a.frac \o Zeros(width - Len(a.frac))),
                  Strip(b.frac \o Zeros(width - Len(b.frac))))

\* C16: precision is cut by truncation only: the decimal text that
\* formatFloatAsString produces is never greater than the value it is given,
\* and the base units scaled from it are never more than the value scaled.
C16_NeverRoundedUp ==
    fn \in FloatCalls /\ ~floatArg.neg =>
        /\ LeqDecimal(Rendered(floatArg), ValueOf(floatArg))
        /\ fn = "CalculateQuantityToFillAsBaseUnits" /\ ret.err = "" =>
               Leq(ret.val, FloorScaled(ValueOf(floatArg), QuantityDigits))

(***************************************************************************)
(* C18                                                                     *)
(***************************************************************************)
\* C18: every entry point that takes a price or a quantity rejects a
\* negative value (-1, -1.0, -1.1, -.1) with an error: the call returns,
\* and what it returns is an error.
C18_NegativeRejected ==
    /\ fn \in FloatCalls /\ floatArg.neg => ret # NoReturn /\ ret.err # ""
    /\ fn \in TextCalls /\ Len(textArg) > 0 /\ textArg[1] = "-" => ret.err # ""

(***************************************************************************)
(* C19                                                                     *)
(***************************************************************************)
PriceCalls == {"CalculateScaledExchangeRateFromPriceString"}

\* floor(p * 10^38) of the price p the text denotes
ScaledPrice(text) == FloorScaled(ParseFloat(text), FactorDigits(OneE38))

\* the text has no digit below 10^-38: its price is ScaledPrice / 10^38
ExactPrice(text) == Len(text) - DotAt(text) <= FactorDigits(OneE38)

\* q = ceil(a / b) for a > 0: q is the least number with q * b >= a
IsCeilOfQuotient(q, a, b) ==
    /\ q # Zero
    /\ Leq(a, Mul(q, b))
    /\ Less(Mul(Sub(q, <<1>>), b), a)

\* the rates the tests of the repository expect of a text for BID and ASK
ExpectedRates ==
    { <<<<"1">>, OneE38, OneE38>>,
      <<<<"1", ".", "0">>, OneE38, OneE38>>,
      <<<<"2", "0">>, <<2>> \o Zeros(39), <<5>> \o Zeros(36)>>,
      <<<<"3">>, <<3>> \o Zeros(38), [i \in 1..38 |-> IF i = 38 THEN 4 ELSE 3]>>,
      <<<<"0", ".", "0", "0", "5">>, <<5>> \o Zeros(35), <<2>> \o Zeros(40)>>,
      <<<<".", "0", "0", "5">>, <<5>> \o Zeros(35), <<2>> \o Zeros(40)>>,
      <<<<"0", ".">> \o RepeatZero(37) \o <<"1">>, <<1>>, Pow10(76)>>,
      <<<<"1">> \o RepeatZero(38), Pow10(76), <<1>>>> }

PriceTextCalls == {"CalculatePriceStringFromScaledExchangeRate"}

\* the rate without the correction for $DESO
UncorrectedRate ==
    IF buying = DESOCoin THEN Div(scaledArg, getDESOToDAOCoinBaseUnitsScalingFactor)
    ELSE IF selling = DESOCoin THEN Mul(scaledArg, getDESOToDAOCoinBaseUnitsScalingFactor)
    ELSE scaledArg

\* a decimal text whose fraction has one digit, or more and no zero at its end
TrimmedText(text) ==
    /\ WellFormed(text)
    /\ DotAt(text) > 1
    /\ DotAt(text) < Len(text)
    /\ text[1] = "0" => DotAt(text) = 2
    /\ text[Len(text)] = "0" => DotAt(text) = Len(text) - 1

\* the rate of the price 100 as the tests build it for the pair
RateOfHundred ==
    IF buying = DESOCoin THEN <<1>> \o Zeros(49)
    ELSE IF selling = DESOCoin THEN <<1>> \o Zeros(31)
    ELSE <<1>> \o Zeros(40)

Alone(t) ==
    IF frame[t].function = "CalculateExchangeRateAsFloat"
    THEN CalculateExchangeRateAsFloat(frame[t].buying, frame[t].selling, given)
    ELSE calculateQuantityToFillAsFloatWithScalingFactor(given, BaseUnitsPerCoin)

\* C17: in every interleaving of the statements of concurrent calls the
\* uint256 the callers pass and lib.OneE38 and lib.BaseUnitsPerCoin keep
\* their values, and a call that has returned has returned what the same
\* call returns when it runs alone.
C17_ConcurrentCallsAsAlone ==
    /\ heap[scaledValue] = given
    /\ heap[libOneE38] = OneE38
    /\ heap[libBaseUnitsPerCoin] = BaseUnitsPerCoin
    /\ \A t \in Threads : pc[t] = "done" => frame[t].ret = Alone(t)

C17_Witness ==
    /\ \A t \in Threads : pc[t] = "done" /\ frame[t].overlapped
    /\ frame[1].function = "CalculateExchangeRateAsFloat"
    /\ frame[1].buying = DESOCoin
    /\ frame[2].function = "calculateQuantityToFillFromDAOCoinBaseUnitsToFloat"
    /\ given = <<1, 2>> \o Zeros(38)
    /\ frame[1].ret.val = ParseFloat(<<"0", ".", "0", "0", "0", "0", "0", "0", "0", "1", "2">>)

(***************************************************************************)
(* C24                                                                     *)
(***************************************************************************)
\* C24: getNumDigits ends for every integer, the negative ones included, so
\* every call that renders its float64 argument with formatFloatAsString
\* returns; for an argument that is not negative the count is the number
\* of digits of the integer part, 0 for the integer part 0.
C24_GetNumDigitsTerminates ==
    fn \in FloatCalls =>
        /\ formatFloatAsStringReturns(floatArg)
        /\ ret # NoReturn
        /\ ~floatArg.neg => getNumDigits(floatArg.int) = Len(floatArg.int)

(***************************************************************************)
(* C21                                                                     *)
(***************************************************************************)
\* a text of digits, a "." and digits, with a digit on each side
DigitsPointDigits(text) ==
    /\ WellFormed(text)
    /\ DotAt(text) > 1
    /\ DotAt(text) < Len(text)

\* C21: for every uint256 rate or quantity, pair and operation type the
\* conversions to a float64 build a text of digits, "." and digits and
\* return no error, and the response of an order fails exactly when its
\* operation type is neither ASK nor BID.
C21_ResponseFailsOnlyOnOperationType ==
    /\ fn \in FormatCalls =>
           /\ ret.err = ""
           /\ DigitsPointDigits(ret.str)
    /\ fn = "buildDAOCoinLimitOrderResponse" =>
           /\ ret.err # "" <=> operationType \notin OperationTypes
           /\ ret.err = "" =>
                  /\ ret.val.ExchangeRateCoinsToSellPerCoinToBuy
                         = CalculateExchangeRateAsFloat(buying, selling, scaledArg).val
                  /\ ret.val.QuantityToFill
                         = CalculateQuantityToFillAsFloat(buying, selling, operationType,
                                                          scaledArg).val

C21_Witness ==
    /\ fn = "buildDAOCoinLimitOrderResponse"
    /\ scaledArg = MaxUint256
    /\ buying = DAOCoin
    /\ selling = DESOCoin
    /\ operationType = DAOCoinLimitOrderOperationTypeStringASK
    /\ ret.err = ""

(***************************************************************************)
(* C22                                                                     *)
(***************************************************************************)
\* the orders of the ledger the answered listing is about, as the ledger
\* lists them
Listed ==
    IF handler = "GetDAOCoinLimitOrders"
    THEN GetAllDAOCoinLimitOrdersForThisDAOCoinPair(request.coin1, request.coin2)
             \o GetAllDAOCoinLimitOrdersForThisDAOCoinPair(request.coin2, request.coin1)
    ELSE GetAllDAOCoinLimitOrdersForThisTransactor(request.transactor)

\* the response of an order on its own
ResponseOf(order) ==
    buildDAOCoinLimitOrderResponse(order.TransactorPKID, order.BuyingDAOCoinCreatorPKID,
                                   order.SellingDAOCoinCreatorPKID, order)

\* the operation type, the rate and the quantity of the order convert
Converts(order) == ResponseOf(order).err = ""

\* C22: a listing answers with the responses of exactly the listed orders
\* that convert without error, once each and in the order of the ledger;
\* an order that fails takes no other order with it.
C22_ListingSkipsOnlyBadOrders ==
    handler # "" /\ reply.code = 200 =>
        LET kept == SelectSeq(Listed, Converts)
        IN  /\ Len(reply.Orders) = Len(kept)
            /\ \A i \in 1..Len(kept) : reply.Orders[i] = ResponseOf(kept[i]).val
            /\ \A i, j \in 1..Len(reply.Orders) :
                   i < j => reply.Orders[i].OrderID # reply.Orders[j].OrderID

C22_Witness ==
    /\ handler = "GetDAOCoinLimitOrders"
    /\ reply.code = 200
    /\ Len(Listed) = 3
    /\ ~Converts(Listed[2])
    /\ Len(reply.Orders) = 2
    /\ reply.Orders[1].OrderID = 1
    /\ reply.Orders[2].OrderID = 3

(***************************************************************************)
(* C23                                                                     *)
(***************************************************************************)
\* C23: GetDAOCoinLimitOrders answers a request that names neither coin
\* (both $DESO) with a bad request, before it looks up an order or
\* converts a number.
C23_NeverDESOAgainstDESO ==
    /\ handler = "GetDAOCoinLimitOrders"
    /\ request.coin1 = DESOCoin
    /\ request.coin2 = DESOCoin
    => /\ reply.code = 400
       /\ reply.Orders = << >>
       /\ work = NoWork

C23_Witness ==
    /\ handler = "GetDAOCoinLimitOrders"
    /\ request.coin1 = DESOCoin
    /\ request.coin2 = DESOCoin
    /\ request.fault = ""
    /\ Len(book) = 3
    /\ reply.code = 400

(***************************************************************************)
(* C25                                                                     *)
(***************************************************************************)
\* the fields of a link that the sign-up flow counts
Statistics(referralInfo) ==
    <<referralInfo.NumJumioAttempts, referralInfo.NumJumioSuccesses,
      referralInfo.TotalReferrerDeSoNanos, referralInfo.TotalRefereeDeSoNanos>>

\* C25: a request of AdminCreateReferralHash, of AdminUpdateReferralHash or
\* an upload leaves every link the store held stored, with the hash and
\* the statistics it had, whether the request updates the link or not;
\* a request of AdminUpdateReferralHash leaves its referrer and its date of
\* creation as well.
C25_UpdateKeepsHashAndStatistics ==
    [][\A hash \in DOMAIN GlobalState.ReferralHashToReferralInfo :
           /\ hash \in DOMAIN GlobalState'.ReferralHashToReferralInfo
           /\ GlobalState'.ReferralHashToReferralInfo[hash].ReferralHashBase58 =
                  GlobalState.ReferralHashToReferralInfo[hash].ReferralHashBase58
           /\ Statistics(GlobalState'.ReferralHashToReferralInfo[hash]) =
                  Statistics(GlobalState.ReferralHashToReferralInfo[hash])
           /\ adminReply'.handler = "AdminUpdateReferralHash" =>
                  /\ GlobalState'.ReferralHashToReferralInfo[hash].ReferrerPKID =
                         GlobalState.ReferralHashToReferralInfo[hash].ReferrerPKID
                  /\ GlobalState'.ReferralHashToReferralInfo[hash].DateCreatedTStampNanos =
                         GlobalState.ReferralHashToReferralInfo[hash].DateCreatedTStampNanos
      ]_vars

\* a used link that an upload gave to another referrer with a new date, and
\* that AdminUpdateReferralHash then gave new amounts
C25_Witness ==
    /\ adminReply.handler = "AdminUpdateReferralHash"
    /\ adminReply.code = 200
    /\ adminReply.ReferralHashBase58 = UsedLink.ReferralHashBase58
    /\ LET referralInfo ==
               GlobalState.ReferralHashToReferralInfo[UsedLink.ReferralHashBase58]
       IN  /\ Statistics(referralInfo) = Statistics(UsedLink)
           /\ referralInfo.NumJumioAttempts > 0
           /\ referralInfo.ReferrerPKID = "other"
           /\ referralInfo.DateCreatedTStampNanos = 3
           /\ referralInfo.RefereeAmountUSDCents = 100001

(***************************************************************************)
(* C26                                                                     *)
(***************************************************************************)
\* C26: every ReferralInfo the store holds has a referrer amount and a
\* referee amount of at most referralLimitUSD cents, whichever handlers ran.
C26_AmountsWithinLimit ==
    \A hash \in DOMAIN GlobalState.ReferralHashToReferralInfo :
        /\ GlobalState.ReferralHashToReferralInfo[hash].ReferrerAmountUSDCents
               <= referralLimitUSD
        /\ GlobalState.ReferralHashToReferralInfo[hash].RefereeAmountUSDCents
               <= referralLimitUSD

\* the part of it that holds: a link AdminCreateReferralHash has just made
C26_CreatedWithinLimit ==
    (adminReply.handler = "AdminCreateReferralHash" /\ adminReply.code = 200) =>
        /\ GlobalState.ReferralHashToReferralInfo[adminReply.ReferralHashBase58]
               .ReferrerAmountUSDCents <= referralLimitUSD
        /\ GlobalState.ReferralHashToReferralInfo[adminReply.ReferralHashBase58]
               .RefereeAmountUSDCents <= referralLimitUSD

(***************************************************************************)
(* C27                                                                     *)
(***************************************************************************)
\* the two indexes of a store agree: every status is that of a link under
\* its referrer, and every link has a status under its referrer
IndexesAgree(store) ==
    /\ \A key \in DOMAIN store.PKIDReferralHashToIsActive :
           /\ key[2] \in DOMAIN store.ReferralHashToReferralInfo
           /\ store.ReferralHashToReferralInfo[key[2]].ReferrerPKID = key[1]
    /\ \A hash \in DOMAIN store.ReferralHashToReferralInfo :
           <<store.ReferralHashToReferralInfo[hash].ReferrerPKID, hash>>
               \in DOMAIN store.PKIDReferralHashToIsActive

\* C27: the indexes agree after any sequence of successful requests: they
\* agree at the start, and a request answered with 200 on a store whose
\* indexes agree leaves a store whose indexes agree.
C27_IndexesAgree ==
    [][(IndexesAgree(GlobalState) /\ adminReply'.code = 200) =>
           IndexesAgree(GlobalState')]_vars

\* the same with no call of the store failing: the upload that gives a link
\* to another referrer
C27_IndexesAgreeWithoutFaults ==
    [][(/\ IndexesAgree(GlobalState)
        /\ adminReply'.code = 200
        /\ \A i \in 1..Len(puts') : puts'[i].err = "") =>
           IndexesAgree(GlobalState')]_vars

\* the part of it that holds: AdminCreateReferralHash and
\* AdminUpdateReferralHash keep the indexes in agreement
C27_CreateAndUpdateKeepAgreement ==
    [][(/\ IndexesAgree(GlobalState)
        /\ adminReply'.code = 200
        /\ adminReply'.handler # "AdminUploadReferralCSV") =>
           IndexesAgree(GlobalState')]_vars

(***************************************************************************)
(* C28                                                                     *)
(***************************************************************************)
\* the upload came with a token signed by the public key it names, and that
\* key is a super-admin
SentBySuperAdmin(sent) ==
    /\ sent.JWT # ""
    /\ sent.UserPublicKeyBase58Check # ""
    /\ sent.JWT = sent.UserPublicKeyBase58Check
    /\ sent.UserPublicKeyBase58Check \in SuperAdminPublicKeys

\* C28: an upload that does not carry a token valid for its public key, or
\* whose public key is no super-admin, calls no Put and leaves the store as
\* it was.
C28_UploadWritesOnlyForSuperAdmin ==
    [][(adminReply'.handler = "AdminUploadReferralCSV" /\ ~SentBySuperAdmin(adminReply')) =>
           (puts' = << >> /\ GlobalState' = GlobalState)]_vars

\* an upload of the super-admin that wrote
C28_Witness ==
    /\ adminReply.handler = "AdminUploadReferralCSV"
    /\ SentBySuperAdmin(adminReply)
    /\ adminReply.code = 200
    /\ adminReply.LinksUpdated > 0
    /\ puts # << >>

\* an upload with a token of another signer than the key it names is
\* turned away
C28_WitnessTurnedAway ==
    /\ adminReply.handler = "AdminUploadReferralCSV"
    /\ adminReply.UserPublicKeyBase58Check = "admin"
    /\ adminReply.JWT = "other"
    /\ adminReply.code = 400

(***************************************************************************)
(* C29                                                                     *)
(***************************************************************************)
\* what C29 says of an upload, with Stops(put) telling which Puts that fail
\* are to stop it: the Puts are made in the order of the rows; a Put that
\* fails and is to stop the upload is its last Put and the answer is an
\* error; after an error no row behind the one the upload stopped at has a
\* Put, and the infos written before are stored; an answer of 200 comes
\* only when no such Put failed, every data row has its Puts, and the links
\* counted are as many as the data rows.
UploadStopsAtFirstFailingRow(Stops(_)) ==
    adminReply.handler = "AdminUploadReferralCSV" =>
        /\ \A i \in 1..Len(puts) : \A j \in i..Len(puts) :
               puts[i].rowIdx <= puts[j].rowIdx
        /\ \A i \in 1..Len(puts) :
               (puts[i].err # "" /\ Stops(puts[i])) =>
                   (adminReply.code # 200 /\ i = Len(puts))
        /\ adminReply.code # 200 =>
               /\ \A i \in 1..Len(puts) : puts[i].rowIdx <= adminReply.rowIdx
               /\ \A i \in 1..Len(puts) :
                      (puts[i].err = "" /\ puts[i].prefix = "ReferralHashToReferralInfo") =>
                          puts[i].key[1] \in DOMAIN GlobalState.ReferralHashToReferralInfo
        /\ adminReply.code = 200 =>
               /\ adminReply.LinksCreated + adminReply.LinksUpdated = adminReply.rows
               /\ \A row \in 1..adminReply.rows :
                      \E i \in 1..Len(puts) : puts[i].rowIdx = row

StopsAlways(put) == TRUE
StopsForInfo(put) == put.prefix = "ReferralHashToReferralInfo"

\* C29: an upload applies the data rows in file order and stops with an
\* error at the first row that fails validation or storage; what it wrote
\* before stays, no later row is applied, and it counts as many links as
\* data rows only when every row succeeded.
C29_UploadStopsAtFirstFailingRow == UploadStopsAtFirstFailingRow(StopsAlways)

\* the part of it that holds: the same with only the Put of the info, not
\* the Put of the status, stopping the upload
C29_UploadStopsAtFirstFailingInfo == UploadStopsAtFirstFailingRow(StopsForInfo)

(***************************************************************************)
(* C30                                                                     *)
(***************************************************************************)
\* the entries of the database
Entries == {<<p, key>> : p \in 1..NumPrefixes, key \in 1..MaxKeys} \cap
           {entry \in (1..NumPrefixes) \X (1..MaxKeys) : entry[2] <= dbSnap[entry[1]]}

\* C30: while the program runs, the weight taken from the semaphore is one
\* for each goroutine that was started and has not returned, one more when
\* main has acquired and not yet started the goroutine, and all of it once
\* main is behind the loop; so at most numProcesses goroutines run at a
\* time, and when main reads the checksum every goroutine has returned and
\* every entry of the database was added exactly once.
C30_SemaphoreBoundsGoroutines ==
    mainAt # "panic" =>
        /\ Cardinality({p \in 1..NumPrefixes : Running(p)}) <= numProcesses
        /\ sem = Cardinality({p \in 1..NumPrefixes : Running(p)})
                   + (IF mainAt = "go" THEN 1 ELSE 0)
                   + (IF mainAt \in {"read", "done"} THEN numProcesses ELSE 0)
        /\ \A p \in 1..NumPrefixes : routines[p].at # "not started" <=> p < nextPrefix
        /\ mainAt \in {"read", "done"} =>
               /\ \A p \in 1..NumPrefixes : routines[p].at = "returned"
               /\ {Checksum[i] : i \in 1..Len(Checksum)} = Entries
               /\ Len(Checksum) = Cardinality(Entries)
        /\ mainAt = "done" => checksumBytes = Checksum

\* main has read the checksum of a database with MaxKeys keys under every
\* prefix
C30_Witness ==
    /\ mainAt = "done"
    /\ \A p \in 1..NumPrefixes : dbSnap[p] = MaxKeys
    /\ Len(checksumBytes) = NumPrefixes * MaxKeys

\* main waits for the semaphore while a goroutine adds entries
C30_WitnessMainWaits ==
    /\ mainAt = "acquire"
    /\ sem = numProcesses
    /\ \E p \in 1..NumPrefixes : routines[p].at = "add" /\ routines[p].removeFirst

====
